---- MODULE Spec2Model ----
(***************************************************************************)
(* Cosmic Birthday Finder: the batch data-fetching pipeline.               *)
(*                                                                         *)
(*  - fetchAllAstronomicalData (the year-batch orchestrator) with its      *)
(*    per-year fetchers fetchMoonPhasesForYear and fetchEclipsesForYear;   *)
(*  - calculateEclipses and the merge/dedupe step of fetchAllEclipseData;  *)
(*  - the birthday matcher of the app (findCosmicEvents and the process*   *)
(*    functions) and the eclipse classifier extractEclipseType;            *)
(*  - makeRequest and fetchMoonPhasesYear, fetchAllCosmicData, and the     *)
(*    catalog parser parseNASAEclipseData;                                 *)
(*  - the page: date input, search button and the search itself;           *)
(*  - the CORS relay (cors-proxy) and the live year-by-year search;        *)
(*  - fetchAllMoonData with its re-runs, and fetchNASAEclipses.            *)
(*                                                                         *)
(* Years of the Saros projection are kept in hundredths of a year          *)
(* (2005.97 is 200597), because the code subtracts 18.03 without rounding. *)
(***************************************************************************)
EXTENDS Integers, Sequences, FiniteSets, TLC

\* ------------------------------------------------------------------ bounds

\* The run covers startYear .. endYear with endYear - startYear < MaxSpan.
MaxSpan == 3
\* Batch sizes 1 .. MaxBatch are tried.
MaxBatch == 2
\* The NASA list handed to the merge has at most MaxNasa records.
MaxNasa == 2
\* The datasets of the birthday matcher hold at most MaxRecords records.
MaxRecords == 2
\* A description handed to the eclipse classifier has at most MaxFields fields.
MaxFields == 2
\* A response body arrives in at most MaxChunks chunks.
MaxChunks == 2
\* The totals in the metadata of the stage results are at most MaxTotal.
MaxTotal == 2
\* A catalog text handed to the parser has at most MaxLines lines.
MaxLines == 2
\* The user runs at most MaxQueries searches on the page.
MaxQueries == 2
\* A live search covers at most MaxYears years.
MaxYears == 4
\* fetchAllMoonData covers MaxMoonYears years.
MaxMoonYears == 11
\* The moon script is run at most MaxRuns times.
MaxRuns == 2

\* --------------------------------------------------------------- constants

FirstYear == 1960
LastYear == 2100
\* 18.03 years, in hundredths of a year.
sarosCycle == 1803

NoError == "none"

VARIABLES
    \* fetchAllAstronomicalData
    pc,             \* "idle", "await", "delay", "returned", "rejected"
    startYear, endYear, batchSize,
    i,              \* the loop variable: first year of the current batch
    batchYears,     \* the years of the current batch, in order
    moonResults,    \* promise index -> result, for the settled moon promises
    eclipseResults, \* promise index -> result, for the settled eclipse promises
    allData,        \* [moonPhases, eclipses, metadata]
    successCount, errorCount,
    batches,        \* history: the batchYears of every batch issued so far
    events,         \* history: "issue", "store", "delay", "final"
    writes,         \* history: the writeFileSync calls, [file, data]
    disk,           \* the files a writeFileSync call has written
    failedFetches,  \* history: per-year fetches all of whose requests failed
    okFetches,      \* history: the other per-year fetches
    \* fetchAllEclipseData, merge step
    mpc,            \* "idle", "fetched", "combined"
    eclipseType,
    fromNASA,       \* the list fetchNASAEclipses returned
    calculated,     \* the list calculateEclipses returned
    eclipseList,    \* allData.solarEclipses / allData.lunarEclipses
    selfMerged,     \* <<[list, result]>> once a list was merged with itself
    \* the birthday matcher of the app
    utcOffset,      \* hours the machine's local time is ahead of UTC
    birthDate,      \* the stored birth date string 'YYYY-MM-DD', as <<y, m, d>>
    moonPhaseData,  \* the imported moon-phase dataset
    eclipseData,    \* the imported eclipse dataset
    searchResults,  \* the results state: <<>> for null, or <<finalResults>>
    fallbackResults, \* <<>>, or what processMoonPhases / processEclipses returned
    \* the eclipse type classifier
    classifiedDescription, \* the description handed to extractEclipseType
    classifiedCategory,    \* the category handed with it
    labels,         \* <<>>, or the labels the three copies returned
    \* makeRequest and its caller fetchMoonPhasesYear
    runtime,        \* what the HTTP client does when a response is cut short
    statusCode,     \* res.statusCode of the response the server gives
    body,           \* the chunks of the body the server gives
    conn,           \* "open", "head", "aborted", "destroyed", "ended", "closed"
    chunks,         \* data: the chunks received so far
    promise,        \* [state, value] of the promise makeRequest returned
    settleCalls,    \* history: the resolve / reject calls, in order
    yearRecord,     \* <<>>, or <<the record fetchMoonPhasesYear returned>>
    \* fetchAllCosmicData
    cpc,            \* "idle", "moon", "eclipse", "returned", "rejected"
    masterData,     \* [metadata, moonPhases, eclipses], <<>> standing for null
    cosmicFiles,    \* file name -> the data written to it
    thrown,         \* the error fetchAllCosmicData rejected with, or NoError
    reportedComplete, \* "COSMIC DATABASE COMPLETE" was logged
    stagesStarted,  \* history: the stage functions called, in order
    \* parseNASAEclipseData
    catalogText,    \* the lines of the catalog text handed to the parser
    \* the page of the app
    displayDate,    \* the text of the date input, DD/MM/YYYY
    loading,
    uiError,        \* the error state, "" when there is none
    queryLog,       \* history: the searches that finished
    \* the CORS relay
    relayUp,        \* the relay process is running
    relayRequests,  \* connection -> the request it carries
    relayState,     \* connection -> "free", "forwarded", "piping", "ended", "dropped"
    heads,          \* connection -> the response heads written to it
    upstreamRequests, \* connection -> the upstream requests made for it
    \* the app that fetches on demand
    livePc,         \* "idle", "fetching", "delay", "done"
    liveBirthYear,
    liveYear,       \* the loop variable
    liveEndYear,
    liveEvents,     \* history: the requests sent, the failures, the delays
    liveCollected,  \* the years whose data was pushed to the lists
    \* fetchAllMoonData and its re-runs
    moonPc,         \* "idle", "fetching", "delay", "returned", "rejected", "interrupted"
    moonRun,        \* the number of the run
    moonIndex,      \* the position of the loop in years
    moonAllData,    \* allData: [metadata, moonPhases]
    processed, successful, failedCount,
    moonFiles,      \* the files on disk
    moonFetched,    \* history: run -> the years requested, in order
    \* fetchNASAEclipses
    nasaPc,         \* "idle", "request", "delay", "returned", "hung"
    nasaUrl,        \* the position of the loop in urls[eclipseType]
    allEclipses,
    nasaRequested   \* history: the URLs requested, in order

batchVars == <<pc, startYear, endYear, batchSize, i, batchYears, moonResults,
               eclipseResults, allData, successCount, errorCount, batches,
               events, writes, disk, failedFetches, okFetches>>
mergeVars == <<mpc, eclipseType, fromNASA, calculated, eclipseList, selfMerged>>
matchVars == <<utcOffset, birthDate, moonPhaseData, eclipseData, searchResults,
               fallbackResults>>
classifyVars == <<classifiedDescription, classifiedCategory, labels>>
requestVars == <<runtime, statusCode, body, conn, chunks, promise, settleCalls,
                 yearRecord>>
cosmicVars == <<cpc, masterData, cosmicFiles, thrown, reportedComplete,
                stagesStarted>>
parseVars == <<catalogText>>
uiVars == <<displayDate, loading, uiError, queryLog>>
relayVars == <<relayUp, relayRequests, relayState, heads, upstreamRequests>>
liveVars == <<livePc, liveBirthYear, liveYear, liveEndYear, liveEvents,
              liveCollected>>
moonRunVars == <<moonPc, moonRun, moonIndex, moonAllData, processed, successful,
                 failedCount, moonFiles, moonFetched>>
nasaVars == <<nasaPc, nasaUrl, allEclipses, nasaRequested>>
laterVars == <<uiVars, relayVars, liveVars, moonRunVars, nasaVars>>
otherVars == <<matchVars, classifyVars, requestVars, cosmicVars, parseVars,
               laterVars>>
\* What the actions of one part leave alone.
exceptMatch == <<batchVars, mergeVars, classifyVars, requestVars, cosmicVars,
    parseVars, laterVars>>
exceptClassify == <<batchVars, mergeVars, matchVars, requestVars, cosmicVars,
    parseVars, laterVars>>
exceptRequest == <<batchVars, mergeVars, matchVars, classifyVars, cosmicVars,
    parseVars, laterVars>>
exceptParse == <<batchVars, matchVars, classifyVars, requestVars, cosmicVars,
    laterVars>>
exceptCosmic == <<batchVars, mergeVars, matchVars, classifyVars, requestVars,
    parseVars, laterVars>>
exceptUi == <<batchVars, mergeVars, classifyVars, requestVars, cosmicVars,
    parseVars, relayVars, liveVars, moonRunVars, nasaVars>>
exceptRelay == <<batchVars, mergeVars, matchVars, classifyVars, requestVars,
    cosmicVars, parseVars, uiVars, liveVars, moonRunVars, nasaVars>>
exceptLive == <<batchVars, mergeVars, matchVars, classifyVars, requestVars,
    cosmicVars, parseVars, uiVars, relayVars, moonRunVars, nasaVars>>
exceptMoonRun == <<batchVars, mergeVars, matchVars, classifyVars, requestVars,
    cosmicVars, parseVars, uiVars, relayVars, liveVars, nasaVars>>
exceptNasa == <<batchVars, matchVars, classifyVars, requestVars, cosmicVars,
    parseVars, uiVars, relayVars, liveVars, moonRunVars>>
vars == <<batchVars, mergeVars, otherVars>>

\* ----------------------------------------------------------------- helpers

Min(a, b) == IF a <= b THEN a ELSE b

Range(s) == {s[k] : k \in DOMAIN s}

\* The years lo, lo+1, .., hi as an array.
YearList(lo, hi) == [k \in 1..(hi - lo + 1) |-> lo + k - 1]

\* ------------------------------------------------------ per-year fetchers

\* What the moon-phase request can end with: a 200 with the JSON body, or a
\* rejection (network error, timeout, other status). A 200 whose body does
\* not parse takes the same catch block as a rejection.
MoonResponses == {"ok", "reject"}
\* What one eclipse endpoint can answer to one request.
EclipseResponses == {"ok", "reject"}

\* The body of a 200 answer to the moon-phase request for `year`.
MoonBody(year) == <<[year |-> year, phase |-> "Full Moon"]>>

\* The body of a 200 answer to an eclipse request: lines of text, each with
\* the ISO date it contains (or none) and whether it has the word "solar".
EclipseBody(year, kind) ==
    << [date |-> "none", solar |-> FALSE],
       [date |-> <<year, 1, 1>>, solar |-> kind = "solar"] >>

\* parseEclipseData: one record per line that holds an ISO date.
RECURSIVE parseEclipseData(_)
parseEclipseData(lines) ==
    IF lines = <<>> THEN <<>>
    ELSE LET line == Head(lines)
             rest == parseEclipseData(Tail(lines))
         IN IF line.date # "none"
            THEN <<[date |-> line.date,
                    type |-> IF line.solar THEN "solar" ELSE "lunar"]>> \o rest
            ELSE rest

\* fetchMoonPhasesForYear: resolves in every case; a rejected request or an
\* unparsable body gives a result with an error message.
fetchMoonPhasesForYear(year, resp) ==
    IF resp = "ok"
    THEN [year |-> year, data |-> MoonBody(year), error |-> NoError]
    ELSE [year |-> year, data |-> <<>>, error |-> resp]

\* fetchEclipsesForYear: each request's rejection is caught and replaced by
\* null, so the result never carries an error.
fetchEclipsesForYear(year, solarResp, lunarResp) ==
    [year |-> year,
     solar |-> IF solarResp = "ok"
               THEN parseEclipseData(EclipseBody(year, "solar")) ELSE <<>>,
     lunar |-> IF lunarResp = "ok"
               THEN parseEclipseData(EclipseBody(year, "lunar")) ELSE <<>>,
     error |-> NoError]

\* ------------------------------------------------ fetchAllAstronomicalData

progressFile == "astronomical-data-progress.json"
finalFile == "astronomical-data-complete.json"

\* Variant: every result of a batch stored under the batch's first year.
StoreKey_batchStart(result, index, batchStart) == batchStart

\* The key under which a result is stored: the result's own year.
StoreKey(result, index, batchStart) == result.year

\* results.forEach(result => map[result.year] = result), in array order.
RECURSIVE StoreResults(_, _, _, _)
StoreResults(map, results, index, batchStart) ==
    IF index > Len(results) THEN map
    ELSE LET r == results[index]
             key == StoreKey(r, index, batchStart)
         IN StoreResults([y \in (DOMAIN map) \cup {key} |->
                             IF y = key THEN r ELSE map[y]],
                         results, index + 1, batchStart)

\* The first year of the batch that follows the one starting at `from`.
NextBatchStart(from, size) == from + size

\* Variant: the batch end without the Math.min.
BatchEnd_noMin(from, size, last) == from + size - 1

\* Math.min(i + batchSize - 1, endYear)
BatchEnd(from, size, last) == Min(from + size - 1, last)

\* Variant: the delay is taken after the last batch too.
DelayNeeded_always(batchEnd, last) == batchEnd <= last

\* if (batchEnd < endYear): a further batch remains, so the delay is taken.
DelayNeeded(batchEnd, last) == batchEnd < last

\* The loop body up to the await: build batchYears and start every per-year
\* fetch of the batch (each issues its requests at once).
IssueBatch(from, ev) ==
    LET years == YearList(from, BatchEnd(from, batchSize, endYear))
    IN /\ i' = from
       /\ batchYears' = years
       /\ moonResults' = <<>>
       /\ eclipseResults' = <<>>
       /\ batches' = Append(batches, years)
       /\ events' = Append(ev, "issue")
       /\ pc' = "await"

\* metadata.successCount and metadata.errorCount are undefined (-1 here)
\* until the final statistics are set.
EmptyData ==
    [moonPhases |-> <<>>, eclipses |-> <<>>,
     metadata |-> [successCount |-> -1, errorCount |-> -1]]

\* data with the final statistics.
Final(data) ==
    [data EXCEPT !.metadata = [successCount |-> successCount',
                               errorCount |-> errorCount']]

\* After the loop: set the final statistics and write the final file; a
\* throw of that write rejects the call.
Finalize(from, data, w, ev, d) ==
    /\ i' = from
    /\ allData' = Final(data)
    /\ writes' = Append(w, [file |-> finalFile, data |-> Final(data)])
    /\ events' = Append(ev, "final")
    /\ \E finalOk \in BOOLEAN :
          /\ disk' = (IF finalOk THEN d \cup {finalFile} ELSE d)
          /\ pc' = IF finalOk THEN "returned" ELSE "rejected"
    /\ UNCHANGED <<batchYears, moonResults, eclipseResults, batches>>

\* for (...; i <= endYear; ...): the loop test with i = from, and what runs
\* up to the next await or the return.
LoopFrom(from, data, w, ev, d) ==
    IF from <= endYear
    THEN /\ IssueBatch(from, ev)
         /\ allData' = data
         /\ writes' = w
         /\ disk' = d
    ELSE Finalize(from, data, w, ev, d)

\* The call: everything up to the first await.
Start ==
    /\ pc = "idle"
    /\ successCount' = 0
    /\ errorCount' = 0
    /\ LoopFrom(startYear, EmptyData, writes, events, disk)
    /\ UNCHANGED <<startYear, endYear, batchSize, failedFetches, okFetches,
                   mergeVars, otherVars>>

\* if (result.error) errorCount++; else successCount++;
Count(result) ==
    IF result.error # NoError
    THEN /\ errorCount' = errorCount + 1
         /\ UNCHANGED successCount
    ELSE /\ successCount' = successCount + 1
         /\ UNCHANGED errorCount

\* History: a per-year fetch all of whose requests were rejected.
Tally(failed) ==
    IF failed
    THEN /\ failedFetches' = failedFetches + 1
         /\ UNCHANGED okFetches
    ELSE /\ okFetches' = okFetches + 1
         /\ UNCHANGED failedFetches

\* One moon promise settles; its .then callback counts it.
SettleMoon ==
    /\ pc = "await"
    /\ \E k \in DOMAIN batchYears \ DOMAIN moonResults :
       \E resp \in MoonResponses :
          LET result == fetchMoonPhasesForYear(batchYears[k], resp)
          IN /\ moonResults' = (k :> result) @@ moonResults
             /\ Count(result)
             /\ Tally(resp = "reject")
    /\ UNCHANGED <<pc, startYear, endYear, batchSize, i, batchYears,
                   eclipseResults, allData, batches, events, writes, disk,
                   mergeVars, otherVars>>

\* One eclipse promise settles; its .then callback counts it.
SettleEclipse ==
    /\ pc = "await"
    /\ \E k \in DOMAIN batchYears \ DOMAIN eclipseResults :
       \E solarResp \in EclipseResponses, lunarResp \in EclipseResponses :
          LET result == fetchEclipsesForYear(batchYears[k], solarResp, lunarResp)
          IN /\ eclipseResults' = (k :> result) @@ eclipseResults
             /\ Count(result)
             /\ Tally(solarResp = "reject" /\ lunarResp = "reject")
    /\ UNCHANGED <<pc, startYear, endYear, batchSize, i, batchYears,
                   moonResults, allData, batches, events, writes, disk,
                   mergeVars, otherVars>>

\* Both Promise.all of the batch are resolved.
AllSettled ==
    /\ DOMAIN moonResults = DOMAIN batchYears
    /\ DOMAIN eclipseResults = DOMAIN batchYears

\* Variant of StoreResults: a result that failed is not stored.
RECURSIVE StoreSuccessful(_, _, _)
StoreSuccessful(map, results, index) ==
    IF index > Len(results) THEN map
    ELSE LET r == results[index]
             failed == IF "data" \in DOMAIN r THEN r.data = <<>>
                       ELSE r.solar = <<>> \/ r.lunar = <<>>
         IN StoreSuccessful(IF failed THEN map
                            ELSE [y \in (DOMAIN map) \cup {r.year} |->
                                    IF y = r.year THEN r ELSE map[y]],
                            results, index + 1)

\* Variant: only the successful results are stored.
Stored_skipFailed ==
    [allData EXCEPT
       !.moonPhases = StoreSuccessful(@, moonResults, 1),
       !.eclipses = StoreSuccessful(@, eclipseResults, 1)]

\* allData after the two forEach loops of the try block.
Stored ==
    [allData EXCEPT
       !.moonPhases = StoreResults(@, moonResults, 1, i),
       !.eclipses = StoreResults(@, eclipseResults, 1, i)]

\* Variant: the snapshot is taken before the batch's results are stored.
Snapshot_stale == allData

\* What the progress write serialises: allData after the stores.
Snapshot == Stored

\* The await of the batch resumes: store the results, write the progress
\* snapshot (a throw is caught and logged), then either start the delay or,
\* after the last batch, go on to the loop test and the final write.
BatchDone ==
    /\ pc = "await"
    /\ AllSettled
    /\ UNCHANGED <<startYear, endYear, batchSize, successCount, errorCount,
                   failedFetches, okFetches, mergeVars,
                   otherVars>>
    /\ \E writeOk \in BOOLEAN :
          LET w == Append(writes, [file |-> progressFile, data |-> Snapshot])
              ev == Append(events, "store")
              d == IF writeOk THEN disk \cup {progressFile} ELSE disk
          IN IF DelayNeeded(BatchEnd(i, batchSize, endYear), endYear)
             THEN /\ pc' = "delay"
                  /\ allData' = Stored
                  /\ writes' = w
                  /\ events' = Append(ev, "delay")
                  /\ disk' = d
                  /\ UNCHANGED <<i, batchYears, moonResults, eclipseResults,
                                 batches>>
             ELSE LoopFrom(NextBatchStart(i, batchSize), Stored, w, ev, d)

\* Variant: the delay's timer never resolves.
DelayElapsed_never ==
    /\ pc = "delay"
    /\ FALSE
    /\ UNCHANGED vars

\* The delay elapsed: i += batchSize, then the loop test.
DelayElapsed ==
    /\ pc = "delay"
    /\ UNCHANGED <<startYear, endYear, batchSize, successCount, errorCount,
                   failedFetches, okFetches, mergeVars,
                   otherVars>>
    /\ LoopFrom(NextBatchStart(i, batchSize), allData, writes, events, disk)

\* -------------------------------------------------- fetch-eclipse-data.js

\* A year is a JavaScript number; it is kept in hundredths, so that 2024 is
\* 202400 and 2024 - 18.03 is 200597.
Y(year) == year * 100

\* Math.round of a positive number kept in hundredths.
MathRound(x) == ((x + 50) \div 100) * 100

\* referenceEclipses[eclipseType]
referenceEclipses(type) ==
    IF type = "solar"
    THEN << [year |-> Y(2024), month |-> 4, day |-> 8],
            [year |-> Y(2023), month |-> 10, day |-> 14],
            [year |-> Y(2021), month |-> 6, day |-> 10],
            [year |-> Y(2020), month |-> 6, day |-> 21],
            [year |-> Y(2017), month |-> 8, day |-> 21] >>
    ELSE IF type = "lunar"
    THEN << [year |-> Y(2024), month |-> 3, day |-> 25],
            [year |-> Y(2023), month |-> 5, day |-> 5],
            [year |-> Y(2022), month |-> 11, day |-> 8],
            [year |-> Y(2022), month |-> 5, day |-> 16],
            [year |-> Y(2021), month |-> 11, day |-> 19] >>
    ELSE <<>>

\* An EclipseRecord (date and description follow from the other fields).
EclipseRecord(year, month, day, type, source) ==
    [year |-> year, month |-> month, day |-> day, type |-> type,
     source |-> source]

\* The "go backwards" loop: the year is pushed as it is, unrounded.
RECURSIVE GoBackwards(_, _, _, _, _)
GoBackwards(ref, year, first, last, type) ==
    IF ~(year >= first) THEN <<>>
    ELSE (IF year >= first /\ year <= last
          THEN <<EclipseRecord(year, ref.month, ref.day, type,
                               "Saros Cycle Calculation")>>
          ELSE <<>>)
         \o GoBackwards(ref, year - sarosCycle, first, last, type)

\* The "go forwards" loop: the year is pushed rounded.
RECURSIVE GoForwards(_, _, _, _, _)
GoForwards(ref, year, first, last, type) ==
    IF ~(year <= last) THEN <<>>
    ELSE (IF year >= first /\ year <= last
          THEN <<EclipseRecord(MathRound(year), ref.month, ref.day, type,
                               "Saros Cycle Calculation")>>
          ELSE <<>>)
         \o GoForwards(ref, year + sarosCycle, first, last, type)

\* for (const ref of references): both projections of every reference.
RECURSIVE Project(_, _, _, _)
Project(refs, first, last, type) ==
    IF refs = <<>> THEN <<>>
    ELSE GoBackwards(Head(refs), Head(refs).year, first, last, type)
         \o GoForwards(Head(refs), Head(refs).year + sarosCycle, first, last, type)
         \o Project(Tail(refs), first, last, type)

\* e.year === eclipse.year && e.month === eclipse.month && e.day === eclipse.day
SameYearMonthDay(e, x) == e.year = x.year /\ e.month = x.month /\ e.day = x.day

\* Variant: the day is part of the key, as in calculateEclipses.
SameYearMonth_withDay(e, x) == e.year = x.year /\ e.month = x.month /\ e.day = x.day

\* e.year === eclipse.year && e.month === eclipse.month
SameYearMonth(e, x) == e.year = x.year /\ e.month = x.month

\* The least element of a non-empty set of indices.
Least(S) == CHOOSE k \in S : \A j \in S : k <= j

\* self.findIndex(e => e.year === x.year && e.month === x.month &&
\* e.day === x.day), indices from 1 and 0 for "not found".
findIndexYearMonthDay(self, x) ==
    LET hits == {j \in DOMAIN self : SameYearMonthDay(self[j], x)}
    IN IF hits = {} THEN 0 ELSE Least(hits)

\* self.findIndex(e => e.year === x.year && e.month === x.month)
findIndexYearMonth(self, x) ==
    LET hits == {j \in DOMAIN self : SameYearMonth(self[j], x)}
    IN IF hits = {} THEN 0 ELSE Least(hits)

\* self.filter((x, index) => index === found[index]): the elements whose
\* index is their own found index, in their order.  (The places are bound
\* by a quantifier so that they are computed once.)
FilterOwnIndex(self, found) ==
    LET kept == {k \in DOMAIN self : found[k] = k}
        places == [k \in kept |-> Cardinality({j \in kept : j <= k})]
        Arrange(place) ==
            [pos \in 1..Cardinality(kept) |->
                self[CHOOSE k \in kept : place[k] = pos]]
    IN CHOOSE filtered \in {Arrange(place) : place \in {places}} : TRUE

\* list.sort((a, b) => a.year - b.year): a stable sort on the year alone.
\* An element comes after every element of a smaller year and after the
\* earlier elements of its own year.
SortByYear(list) ==
    LET places == [k \in DOMAIN list |->
                      Cardinality({j \in DOMAIN list :
                                      \/ list[j].year < list[k].year
                                      \/ list[j].year = list[k].year /\ j <= k})]
        Arrange(place) ==
            [pos \in 1..Len(list) |->
                list[CHOOSE k \in DOMAIN list : place[k] = pos]]
    IN CHOOSE sorted \in {Arrange(place) : place \in {places}} : TRUE

\* calculateEclipses(startYear, endYear, eclipseType)
calculateEclipses(first, last, type) ==
    LET eclipses == Project(referenceEclipses(type), Y(first), Y(last), type)
    IN SortByYear(FilterOwnIndex(eclipses,
          [k \in DOMAIN eclipses |-> findIndexYearMonthDay(eclipses, eclipses[k])]))

\* Variant of findIndexYearMonth: the last index with the key of x.
findLastIndexYearMonth(self, x) ==
    LET hits == {j \in DOMAIN self : SameYearMonth(self[j], x)}
    IN IF hits = {} THEN 0 ELSE CHOOSE k \in hits : \A j \in hits : j <= k

\* Variant: the merge keeps the last record of each (year, month).
MergeLists_keepLast(a, b) ==
    LET merged == a \o b
    IN SortByYear(FilterOwnIndex(merged,
          [k \in DOMAIN merged |-> findLastIndexYearMonth(merged, merged[k])]))

\* "Merge and deduplicate": [...a, ...b].filter(first per (year, month)).sort(by year)
MergeLists(a, b) ==
    LET merged == a \o b
    IN SortByYear(FilterOwnIndex(merged,
          [k \in DOMAIN merged |-> findIndexYearMonth(merged, merged[k])]))

\* "Combine data": the calculated list alone when NASA gave nothing, else
\* the merge of the NASA list and the calculated list.
CombineData(nasa, calc) ==
    IF Len(nasa) = 0 THEN calc ELSE MergeLists(nasa, calc)

\* Records parseNASAEclipseData can return for a catalog of the given type.
NasaRecords(type) ==
    IF type = "solar"
    THEN {EclipseRecord(Y(y), m, d, type, "NASA Eclipse Catalog") :
             y \in {2023, 2024}, m \in {4, 10}, d \in {8, 14}}
    ELSE {EclipseRecord(Y(y), m, d, type, "NASA Eclipse Catalog") :
             y \in {2022, 2023}, m \in {5, 11}, d \in {8, 16}}

\* The lists fetchNASAEclipses can return: any order, repetitions allowed.
NasaLists(type) ==
    UNION {[1..n -> NasaRecords(type)] : n \in 0..MaxNasa}

\* fetchAllEclipseData from the calculation on: calculate the list of the
\* type and combine it with what NASA gave.
Combine ==
    /\ mpc = "fetched"
    /\ calculated' = calculateEclipses(FirstYear, LastYear, eclipseType)
    /\ eclipseList' = CombineData(fromNASA, calculated')
    /\ mpc' = "combined"
    /\ UNCHANGED <<eclipseType, fromNASA, selfMerged, batchVars, otherVars>>

\* The merge applied to a list and itself: the NASA list as fetched, or the
\* combined list.
MergeWithItself ==
    /\ mpc = "combined"
    /\ selfMerged = <<>>
    /\ \E list \in {fromNASA, eclipseList} :
          selfMerged' = <<[list |-> list, result |-> MergeLists(list, list)]>>
    /\ UNCHANGED <<mpc, eclipseType, fromNASA, calculated, eclipseList, batchVars,
                   otherVars>>

\* ---------------------------------------------------- the app: Date objects

\* A Date object is kept as its local fields <<getFullYear, getMonth,
\* getDate>>, getMonth counting from 0; null is the empty tuple.
null == <<>>

getFullYear(date) == date[1]
getMonth(date) == date[2]
getDate(date) == date[3]

IsLeapYear(year) == (year % 4 = 0 /\ year % 100 # 0) \/ year % 400 = 0

\* Days of month 1..12 of a year.
DaysInMonth(year, month) ==
    IF month = 2 THEN (IF IsLeapYear(year) THEN 29 ELSE 28)
    ELSE IF month \in {4, 6, 9, 11} THEN 30 ELSE 31

\* The calendar day before <<year, month, day>>, month 1..12.
PrevDay(ymd) ==
    IF ymd[3] > 1 THEN <<ymd[1], ymd[2], ymd[3] - 1>>
    ELSE IF ymd[2] > 1
         THEN <<ymd[1], ymd[2] - 1, DaysInMonth(ymd[1], ymd[2] - 1)>>
         ELSE <<ymd[1] - 1, 12, 31>>

\* new Date('YYYY-MM-DD'): the string is read as midnight UTC, and the getters
\* answer in local time, which is still the previous day when the machine
\* is behind UTC.
NewDateFromISO(ymd, offset) ==
    LET local == IF offset < 0 THEN PrevDay(ymd) ELSE ymd
    IN <<local[1], local[2] - 1, local[3]>>

\* new Date(year, month, day): local midnight of that day, a month above 11
\* or a day above the month's length carrying over.
RECURSIVE NewDate(_, _, _)
NewDate(year, month, day) ==
    IF month > 11 THEN NewDate(year + 1, month - 12, day)
    ELSE IF day > DaysInMonth(year, month + 1)
         THEN NewDate(year, month + 1, day - DaysInMonth(year, month + 1))
         ELSE <<year, month, day>>

\* Variant: the month of the record is taken as it is.
parseJSONPhaseDate_noShift(phaseObj) ==
    IF phaseObj.year = 0 \/ phaseObj.month = 0 \/ phaseObj.day = 0 THEN null
    ELSE NewDate(phaseObj.year, phaseObj.month, phaseObj.day)

\* parseJSONPhaseDate(phaseObj): JSON months are 1-12, Date months are 0-11.
parseJSONPhaseDate(phaseObj) ==
    IF phaseObj.year = 0 \/ phaseObj.month = 0 \/ phaseObj.day = 0 THEN null
    ELSE LET year == phaseObj.year
             month == phaseObj.month - 1
             day == phaseObj.day
         IN IF month < 0 \/ month > 11 THEN null
            ELSE NewDate(year, month, day)

monthMap ==
    [Jan |-> 0, Feb |-> 1, Mar |-> 2, Apr |-> 3, May |-> 4, Jun |-> 5,
     Jul |-> 6, Aug |-> 7, Sep |-> 8, Oct |-> 9, Nov |-> 10, Dec |-> 11]

\* parseUSNODate(dateStr): dateStr is kept as its parts, <<2024, "Mar", 25>>.
parseUSNODate(dateStr) ==
    IF Len(dateStr) < 3 THEN null
    ELSE IF dateStr[2] \notin DOMAIN monthMap THEN null
    ELSE NewDate(dateStr[1], monthMap[dateStr[2]], dateStr[3])

\* parseOPALEDate(dateStr)
parseOPALEDate(dateStr, offset) == NewDateFromISO(dateStr, offset)

isSameDayMonth(date1, date2) ==
    getDate(date1) = getDate(date2) /\ getMonth(date1) = getMonth(date2)

\* ------------------------------------------------ the app: birthday matcher

\* Insert x after every element that is not greater.
RECURSIVE InsertNumber(_, _)
InsertNumber(sorted, x) ==
    IF sorted = <<>> THEN <<x>>
    ELSE IF x < Head(sorted) THEN <<x>> \o sorted
    ELSE <<Head(sorted)>> \o InsertNumber(Tail(sorted), x)

\* list.sort((a, b) => a - b)
SortNumbers(list) ==
    LET S[k \in 0..Len(list)] ==
            IF k = 0 THEN <<>> ELSE InsertNumber(S[k - 1], list[k])
    IN S[Len(list)]

\* The elements of a set of numbers in ascending order: the order in which
\* Object.entries lists the integer keys of moonPhaseData.moonPhases.
RECURSIVE Ascending(_)
Ascending(S) ==
    IF S = {} THEN <<>> ELSE <<Least(S)>> \o Ascending(S \ {Least(S)})

\* description.includes(marker); a description is kept as the sequence of
\* its fields.
includes(description, marker) ==
    \E k \in DOMAIN description : description[k] = marker

Capitalized(eclipseCategory) ==
    CASE eclipseCategory = "solar" -> "Solar Eclipse"
      [] eclipseCategory = "lunar" -> "Lunar Eclipse"
      [] OTHER -> "Eclipse"

\* Variant: no label when no marker is found.
extractEclipseType_noFallback(description, eclipseCategory) ==
    IF eclipseCategory = "solar"
    THEN IF includes(description, "   T   ") THEN "Total Solar Eclipse"
         ELSE IF includes(description, "   A   ") THEN "Annular Solar Eclipse"
         ELSE IF includes(description, "   P   ") THEN "Partial Solar Eclipse"
         ELSE IF includes(description, "   H   ") THEN "Hybrid Solar Eclipse"
         ELSE ""
    ELSE IF includes(description, "   T-  ") \/ includes(description, "   T+  ")
         THEN "Total Lunar Eclipse"
         ELSE IF includes(description, "   P   ") THEN "Partial Lunar Eclipse"
         ELSE IF includes(description, "   N   ") THEN "Penumbral Lunar Eclipse"
         ELSE ""

\* extractEclipseType(description, eclipseCategory) of processEclipseData
extractEclipseType(description, eclipseCategory) ==
    IF eclipseCategory = "solar"
    THEN IF includes(description, "   T   ") THEN "Total Solar Eclipse"
         ELSE IF includes(description, "   A   ") THEN "Annular Solar Eclipse"
         ELSE IF includes(description, "   P   ") THEN "Partial Solar Eclipse"
         ELSE IF includes(description, "   H   ") THEN "Hybrid Solar Eclipse"
         ELSE "Solar Eclipse"
    ELSE IF eclipseCategory = "lunar"
    THEN IF includes(description, "   T-  ") \/ includes(description, "   T+  ")
         THEN "Total Lunar Eclipse"
         ELSE IF includes(description, "   P   ") THEN "Partial Lunar Eclipse"
         ELSE IF includes(description, "   N   ") THEN "Penumbral Lunar Eclipse"
         ELSE "Lunar Eclipse"
    ELSE Capitalized(eclipseCategory)

\* The matching eclipses of one list of processEclipseData, tagged.
MatchingEclipses(list, eclipseCategory, category, filterYear, birthMonth, birthDay) ==
    LET Matches(eclipse) ==
            /\ eclipse.year >= filterYear
            /\ eclipse.month = birthMonth
            /\ eclipse.day = birthDay
        hits == SelectSeq(list, Matches)
    IN [k \in DOMAIN hits |->
          [year |-> hits[k].year,
           type |-> extractEclipseType(hits[k].description, eclipseCategory),
           category |-> category,
           date |-> <<hits[k].year, hits[k].month, hits[k].day>>,
           rawDescription |-> hits[k].description]]

\* processEclipseData(birthDate, birthYear); birthYear 0 stands for null.
processEclipseData(date, birthYear, offset, data) ==
    LET birth == NewDateFromISO(date, offset)
        filterYear == IF birthYear # 0 THEN birthYear ELSE getFullYear(birth)
        birthMonth == getMonth(birth) + 1
        birthDay == getDate(birth)
    IN SortByYear(
          MatchingEclipses(data.solarEclipses, "solar", "Solar",
                           filterYear, birthMonth, birthDay)
          \o MatchingEclipses(data.lunarEclipses, "lunar", "Lunar",
                              filterYear, birthMonth, birthDay))

\* The years pushed to the list of the phases named in names, in the order
\* of the pushes: one push per matching phase record of a processed year.
RECURSIVE BucketYears(_, _, _, _, _, _)
BucketYears(entries, moonPhases, names, birthYear, birthMonth, birthDay) ==
    IF entries = <<>> THEN <<>>
    ELSE LET yearNum == Head(entries)
             yearData == moonPhases[yearNum]
             Matches(phase) ==
                 LET phaseDate == parseJSONPhaseDate(phase)
                 IN /\ phaseDate # null
                    /\ getMonth(phaseDate) + 1 = birthMonth
                    /\ getDate(phaseDate) = birthDay
                    /\ phase.phase \in names
             hits == IF ~yearData.success \/ yearNum < birthYear THEN <<>>
                     ELSE SelectSeq(yearData.phases, Matches)
         IN [k \in DOMAIN hits |-> yearNum]
            \o BucketYears(Tail(entries), moonPhases, names,
                           birthYear, birthMonth, birthDay)

\* processJSONAstronomicalData(birthDate)
processJSONAstronomicalData(date, offset, moonData, eclData) ==
    LET birth == NewDateFromISO(date, offset)
        birthYear == getFullYear(birth)
        birthMonth == getMonth(birth) + 1
        birthDay == getDate(birth)
        entries == Ascending(DOMAIN moonData.moonPhases)
        ListOf(names) == SortNumbers(BucketYears(entries, moonData.moonPhases,
                                    names, birthYear, birthMonth, birthDay))
    IN [fullMoon |-> ListOf({"Full Moon"}),
        newMoon |-> ListOf({"New Moon"}),
        firstQuarter |-> ListOf({"First Quarter"}),
        lastQuarter |-> ListOf({"Last Quarter", "Third Quarter"}),
        eclipses |-> processEclipseData(date, birthYear, offset, eclData)]

\* Variant: the year is pushed whether or not the list has it.
PushYear_always(list, year) == Append(list, year)

\* if (!list.includes(year)) list.push(year)
PushYear(list, year) ==
    IF \E k \in DOMAIN list : list[k] = year THEN list ELSE Append(list, year)

\* processMoonPhases(phases, birthDate), the lists before the sort.
RECURSIVE MoonYears(_, _, _, _)
MoonYears(phases, birth, fullMoonYears, newMoonYears) ==
    IF phases = <<>> THEN [fullMoon |-> fullMoonYears, newMoon |-> newMoonYears]
    ELSE LET phase == Head(phases)
             phaseDate == parseUSNODate(phase.date)
         IN IF phaseDate # null /\ isSameDayMonth(phaseDate, birth)
            THEN IF phase.phase = "Full Moon"
                 THEN MoonYears(Tail(phases), birth,
                        PushYear(fullMoonYears, getFullYear(phaseDate)),
                        newMoonYears)
                 ELSE IF phase.phase = "New Moon"
                 THEN MoonYears(Tail(phases), birth, fullMoonYears,
                        PushYear(newMoonYears, getFullYear(phaseDate)))
                 ELSE MoonYears(Tail(phases), birth, fullMoonYears, newMoonYears)
            ELSE MoonYears(Tail(phases), birth, fullMoonYears, newMoonYears)

\* processMoonPhases(phases, birthDate)
processMoonPhases(phases, birth) ==
    LET lists == MoonYears(phases, birth, <<>>, <<>>)
    IN [fullMoon |-> SortNumbers(lists.fullMoon),
        newMoon |-> SortNumbers(lists.newMoon)]

\* The events of one list of processEclipses.
EclipseEvents(eclipses, type, birth, offset) ==
    LET Matches(eclipse) ==
            LET eclipseDate == parseOPALEDate(eclipse.date, offset)
            IN eclipseDate # null /\ isSameDayMonth(eclipseDate, birth)
        hits == SelectSeq(eclipses, Matches)
    IN [k \in DOMAIN hits |->
          [year |-> getFullYear(parseOPALEDate(hits[k].date, offset)),
           type |-> type,
           date |-> parseOPALEDate(hits[k].date, offset)]]

\* self.findIndex(e => e.year === event.year && e.type === event.type)
findIndexYearType(self, event) ==
    LET hits == {j \in DOMAIN self :
                    self[j].year = event.year /\ self[j].type = event.type}
    IN IF hits = {} THEN 0 ELSE Least(hits)

\* processEclipses(solarEclipses, lunarEclipses, birthDate)
processEclipses(solarEclipses, lunarEclipses, birth, offset) ==
    LET eclipseEvents == EclipseEvents(solarEclipses, "Solar Eclipse", birth, offset)
                         \o EclipseEvents(lunarEclipses, "Lunar Eclipse", birth, offset)
        uniqueEvents == FilterOwnIndex(eclipseEvents,
            [k \in DOMAIN eclipseEvents |->
                findIndexYearType(eclipseEvents, eclipseEvents[k])])
    IN SortByYear(uniqueEvents)

\* ------------------------------------------------ the datasets of the checks

\* The years with a record in the moon-phase dataset.
DataYears == {1999, 2000}

\* The days on which the datasets may have a phase or an eclipse, in
\* calendar order.
DataDays == << <<1999, 1, 1>>, <<1999, 12, 31>>, <<2000, 1, 1>> >>

PhaseNames ==
    <<"Full Moon", "New Moon", "First Quarter", "Last Quarter", "Third Quarter">>

\* A catalog line with the 'T' marker, and the description of a calculated
\* record, which has no marker.
Descriptions == << <<"2024", "   T   ", "129">>, <<"Calculated eclipse (Saros cycle)">> >>

months ==
    <<"Jan", "Feb", "Mar", "Apr", "May", "Jun",
      "Jul", "Aug", "Sep", "Oct", "Nov", "Dec">>

PhaseRecords(day) ==
    [k \in DOMAIN PhaseNames |->
       [kind |-> "phase", year |-> day[1], month |-> day[2], day |-> day[3],
        phase |-> PhaseNames[k]]]

EclipseRecords(day, kind) ==
    [k \in DOMAIN Descriptions |->
       [kind |-> kind, year |-> day[1], month |-> day[2], day |-> day[3],
        description |-> Descriptions[k]]]

\* Every record a dataset may hold, in calendar order.
RecordUniverse ==
    LET U[k \in 0..Len(DataDays)] ==
            IF k = 0 THEN <<>>
            ELSE U[k - 1] \o PhaseRecords(DataDays[k])
                 \o EclipseRecords(DataDays[k], "solar")
                 \o EclipseRecords(DataDays[k], "lunar")
    IN U[Len(DataDays)]

\* The datasets hold up to MaxRecords records, in calendar order; the same
\* record may be there twice.
SameEclipseDay(r, q) ==
    /\ r.kind # "phase"
    /\ r.kind = q.kind
    /\ <<r.year, r.month, r.day>> = <<q.year, q.month, q.day>>

\* The datasets hold up to MaxRecords records, in calendar order.  The phase
\* lists are what the phase API returned, so a phase record may be there
\* twice; an eclipse list has one record per (year, month, day), as the
\* dedupe of the fetch script leaves it.
Picks ==
    UNION {{s \in [1..n -> DOMAIN RecordUniverse] :
              /\ \A j \in 1..(n - 1) : s[j] <= s[j + 1]
              /\ \A j, k \in 1..n :
                    j < k => ~SameEclipseDay(RecordUniverse[s[j]],
                                             RecordUniverse[s[k]])}
           : n \in 0..MaxRecords}

Picked(s) == [k \in DOMAIN s |-> RecordUniverse[s[k]]]

\* moon-phases-1960-2100.json: a record per year, that of a failed year
\* with success false and no phases.
MoonDataset(s, failed) ==
    [moonPhases |->
       [y \in DataYears |->
          LET InYear(r) == r.kind = "phase" /\ r.year = y
              recs == SelectSeq(Picked(s), InYear)
          IN IF y \in failed
             THEN [year |-> y, success |-> FALSE, phases |-> <<>>]
             ELSE [year |-> y, success |-> TRUE,
                   phases |-> [k \in DOMAIN recs |->
                                 [year |-> recs[k].year, month |-> recs[k].month,
                                  day |-> recs[k].day, phase |-> recs[k].phase]]]]]

EclipseList(s, kind) ==
    LET OfKind(r) == r.kind = kind
        recs == SelectSeq(Picked(s), OfKind)
    IN [k \in DOMAIN recs |->
          [year |-> recs[k].year, month |-> recs[k].month, day |-> recs[k].day,
           date |-> <<recs[k].year, recs[k].month, recs[k].day>>,
           description |-> recs[k].description]]

\* eclipse-data-1960-2100.json
EclipseDataset(s) ==
    [solarEclipses |-> EclipseList(s, "solar"),
     lunarEclipses |-> EclipseList(s, "lunar")]

\* The phases of the dataset as the phase API lists them, with the date
\* string of formatDateUSNO.
AllMoonPhases(moonData) ==
    LET years == Ascending(DOMAIN moonData.moonPhases)
        A[k \in 0..Len(years)] ==
            IF k = 0 THEN <<>>
            ELSE LET phases == moonData.moonPhases[years[k]].phases
                 IN A[k - 1] \o [j \in DOMAIN phases |->
                       [date |-> <<phases[j].year, months[phases[j].month],
                                   phases[j].day>>,
                        phase |-> phases[j].phase]]
    IN A[Len(years)]

BirthDates == {<<2000, 1, 1>>, <<1999, 1, 1>>}
UtcOffsets == {-5, 0, 5}

\* ---------------------------------------------------- the app: the searches

\* findCosmicEvents with the imported dataset: processJSONAstronomicalData.
findCosmicEvents ==
    /\ searchResults = <<>>
    /\ searchResults' = <<processJSONAstronomicalData(birthDate, utcOffset,
                                                      moonPhaseData, eclipseData)>>
    /\ UNCHANGED <<utcOffset, birthDate, moonPhaseData, eclipseData,
                   fallbackResults, exceptMatch>>

\* The processing step of the searches that take their phases and eclipses
\* from the APIs or from the calculation.
ProcessFetched ==
    /\ fallbackResults = <<>>
    /\ LET birth == NewDateFromISO(birthDate, utcOffset)
           moonResults1 == processMoonPhases(AllMoonPhases(moonPhaseData), birth)
       IN fallbackResults' =
             <<[fullMoon |-> moonResults1.fullMoon,
                newMoon |-> moonResults1.newMoon,
                eclipses |-> processEclipses(eclipseData.solarEclipses,
                                             eclipseData.lunarEclipses,
                                             birth, utcOffset)]>>
    /\ UNCHANGED <<utcOffset, birthDate, moonPhaseData, eclipseData, searchResults,
                   exceptMatch>>

MatchIdle ==
    /\ utcOffset = 0
    /\ birthDate = <<2000, 1, 1>>
    /\ moonPhaseData = MoonDataset(<<>>, {})
    /\ eclipseData = EclipseDataset(<<>>)
    /\ searchResults = <<>>
    /\ fallbackResults = <<>>

\* ---------------------------------------------------------- the app: the page

\* A string of the page is kept as the sequence of its characters.
DigitChars == <<"0", "1", "2", "3", "4", "5", "6", "7", "8", "9">>

IsDigit(c) == \E k \in DOMAIN DigitChars : DigitChars[k] = c

\* value.replace(/\D/g, '')
digitsOnly(value) == SelectSeq(value, IsDigit)

\* text.slice(from, to)
slice(text, from, to) == SubSeq(text, from + 1, Min(to, Len(text)))

\* parseInt of a string of digits.
parseIntDigits(text) ==
    LET DigitValue(c) == (CHOOSE k \in DOMAIN DigitChars : DigitChars[k] = c) - 1
        P[k \in 0..Len(text)] ==
            IF k = 0 THEN 0 ELSE P[k - 1] * 10 + DigitValue(text[k])
    IN P[Len(text)]

\* formatDateInput(value)
formatDateInput(value) ==
    LET digits == digitsOnly(value)
    IN IF Len(digits) <= 2 THEN digits
       ELSE IF Len(digits) <= 4
       THEN slice(digits, 0, 2) \o <<"/">> \o slice(digits, 2, Len(digits))
       ELSE slice(digits, 0, 2) \o <<"/">> \o slice(digits, 2, 4) \o <<"/">>
            \o slice(digits, 4, 8)

\* Variant: the month is not validated.
convertToStandardDate_anyMonth(ddmmyyyy) ==
    IF ddmmyyyy = <<>> \/ Len(ddmmyyyy) < 8 THEN <<>>
    ELSE LET digits == digitsOnly(ddmmyyyy)
             day == parseIntDigits(slice(digits, 0, 2))
             month == parseIntDigits(slice(digits, 2, 4))
             year == parseIntDigits(slice(digits, 4, 8))
         IN IF Len(digits) # 8 THEN <<>>
            ELSE IF day < 1 \/ day > 31 THEN <<>>
            ELSE IF year < 1900 \/ year > 2100 THEN <<>>
            ELSE <<year, month, day>>

\* convertToStandardDate(ddmmyyyy): the string `${year}-${month}-${day}` is
\* kept as <<year, month, day>>, the empty string as <<>>.
convertToStandardDate(ddmmyyyy) ==
    IF ddmmyyyy = <<>> \/ Len(ddmmyyyy) < 8 THEN <<>>
    ELSE LET digits == digitsOnly(ddmmyyyy)
             day == parseIntDigits(slice(digits, 0, 2))
             month == parseIntDigits(slice(digits, 2, 4))
             year == parseIntDigits(slice(digits, 4, 8))
         IN IF Len(digits) # 8 THEN <<>>
            ELSE IF day < 1 \/ day > 31 THEN <<>>
            ELSE IF month < 1 \/ month > 12 THEN <<>>
            ELSE IF year < 1900 \/ year > 2100 THEN <<>>
            ELSE <<year, month, day>>

\* What the user leaves in the input (maxLength 10) after typing or pasting.
TypedValues ==
    {<<>>,
     <<"0", "1", "/", "0", "1">>,
     <<"0", "1", "/", "0", "1", "/", "2", "0", "0", "0">>,
     <<"0", "1", "0", "1", "1", "9", "9", "9">>,
     <<"3", "1", "-", "1", "2", "-", "1", "9", "9", "9">>,
     <<"0", "1", "0", "1", "2", "0", "0", "0", "9", "9">>,
     <<"3", "2", "/", "0", "1", "/", "2", "0", "0", "0">>,
     <<"0", "0", "/", "0", "1", "/", "2", "0", "0", "0">>,
     <<"0", "1", "/", "1", "3", "/", "2", "0", "0", "0">>,
     <<"0", "1", "/", "0", "0", "/", "2", "0", "0", "0">>,
     <<"0", "1", "/", "0", "1", "/", "1", "8", "9", "9">>,
     <<"0", "1", "/", "0", "1", "/", "2", "1", "0", "1">>}

\* handleDateChange(value)
handleDateChange ==
    /\ ~loading
    /\ \E value \in TypedValues :
          LET formatted == formatDateInput(value)
          IN /\ displayDate' = formatted
             /\ birthDate' = convertToStandardDate(formatted)
    /\ UNCHANGED <<utcOffset, moonPhaseData, eclipseData, searchResults,
                   fallbackResults, loading, uiError, queryLog, exceptUi>>

\* The search button is disabled while loading or without a birth date.
disabled == loading \/ birthDate = <<>>

\* A click of the search button: findCosmicEvents up to its try block.
ClickSearch ==
    /\ ~disabled
    /\ Len(queryLog) < MaxQueries
    /\ IF birthDate = <<>>
       THEN /\ uiError' = "Please select your birth date"
            /\ UNCHANGED <<loading, searchResults>>
       ELSE /\ loading' = TRUE
            /\ uiError' = ""
            /\ searchResults' = null
    /\ UNCHANGED <<utcOffset, birthDate, moonPhaseData, eclipseData,
                   fallbackResults, displayDate, queryLog, exceptUi>>

\* if (!moonPhaseData || !moonPhaseData.moonPhases) throw
Available(moonData) == "moonPhases" \in DOMAIN moonData

\* Variant: the year lists of the previous search are carried into this one.
finalResults_carried ==
    LET fresh == processJSONAstronomicalData(birthDate, utcOffset,
                                             moonPhaseData, eclipseData)
        kept == IF queryLog = <<>> \/ queryLog[Len(queryLog)].results = <<>>
                THEN <<>>
                ELSE queryLog[Len(queryLog)].results[1].fullMoon
    IN [fresh EXCEPT !.fullMoon = SortNumbers(kept \o fresh.fullMoon)]

\* finalResults = processJSONAstronomicalData(birthDate)
finalResults ==
    processJSONAstronomicalData(birthDate, utcOffset, moonPhaseData, eclipseData)

\* The try, catch and finally blocks of findCosmicEvents.
SearchBody ==
    /\ loading
    /\ IF Available(moonPhaseData)
       THEN /\ searchResults' = <<finalResults>>
            /\ UNCHANGED uiError
       ELSE /\ uiError' = "Error: Moon phase data not available"
            /\ UNCHANGED searchResults
    /\ loading' = FALSE
    /\ queryLog' = Append(queryLog,
          [typed |-> displayDate,
           birthDate |-> birthDate,
           birth |-> LET date == NewDateFromISO(birthDate, utcOffset)
                     IN <<getFullYear(date), getMonth(date) + 1, getDate(date)>>,
           moonPhaseData |-> moonPhaseData,
           eclipseData |-> eclipseData,
           results |-> searchResults'])
    /\ UNCHANGED <<utcOffset, birthDate, moonPhaseData, eclipseData,
                   fallbackResults, displayDate, exceptUi>>

\* The records the datasets of the page are made of: the full moons of
\* 1999-12-31 and 2000-01-01 and the total solar eclipse of 2000-01-01.
AppRecords == {10, 19, 24}

AppPicks == {s \in Picks : Range(s) \subseteq AppRecords}

\* A file without the moonPhases key.
NoMoonPhases == [metadata |-> [totalPhases |-> 0]]

\* ------------------------------------------------------------ the CORS relay

corsHeaders ==
    {"Access-Control-Allow-Origin", "Access-Control-Allow-Methods",
     "Access-Control-Allow-Headers", "Access-Control-Max-Age"}

\* The connections the relay serves at the same time.
Connections == {1, 2}

\* text.startsWith(prefix), a string being the sequence of its characters.
startsWith(text, prefix) ==
    Len(text) >= Len(prefix) /\ SubSeq(text, 1, Len(prefix)) = prefix

\* The position of the first ':' of a string, 0 when it has none.
IndexOfColon(text) ==
    LET hits == {k \in DOMAIN text : text[k] = ":"}
    IN IF hits = {} THEN 0 ELSE Least(hits)

\* new URL(text) throws for a string without a scheme and for an http(s)
\* URL without a host.
URLThrows(text) ==
    LET colon == IndexOfColon(text)
        scheme == SubSeq(text, 1, colon - 1)
        rest == SubSeq(text, colon + 1, Len(text))
        NotSlash(c) == c # "/"
    IN \/ colon <= 1
       \/ \E k \in DOMAIN scheme : scheme[k] = "/"
       \/ /\ scheme \in {<<"h", "t", "t", "p">>, <<"h", "t", "t", "p", "s">>}
          /\ SelectSeq(rest, NotSlash) = <<>>

\* The paths the clients ask for: '/' followed by the target.
RequestUrls ==
    {<<"/">>,
     <<"/", "f", "t", "p", ":", "/", "/", "a", "/", "e">>,
     <<"/", "h", "t", "t", "p", "f", "o", "o">>,
     <<"/", "h", "t", "t", "p", ":", "/", "/">>,
     <<"/", "h", "t", "t", "p", ":", "/", "/", "a", "/", "e">>,
     <<"/", "h", "t", "t", "p", "s", ":", "/", "/", "a", "/", "e">>}

\* The header names a client sends, as it spells them.
ClientHeaders ==
    {{}, {"Accept"}, {"Origin", "Referer", "Accept"}, {"origin", "REFERER"}}

\* req.headers has the names in lower case.
toLowerCase(name) ==
    CASE name \in {"Origin", "origin"} -> "origin"
      [] name \in {"Referer", "REFERER", "referer"} -> "referer"
      [] name \in {"Accept", "accept"} -> "accept"
      [] OTHER -> name

reqHeaders(sent) == {toLowerCase(name) : name \in sent}

\* Variant: only origin is deleted.
UpstreamHeaders_keepReferer(sent) ==
    (reqHeaders(sent) \cup {"host"}) \ {"origin"}

\* options.headers after the two deletes.
UpstreamHeaders(sent) ==
    (reqHeaders(sent) \cup {"host"}) \ {"origin", "referer"}

\* The status codes and header names of the upstream responses.
UpstreamResponses ==
    {[statusCode |-> 200, headers |-> {"content-type"}],
     [statusCode |-> 503, headers |-> {}]}

NoRequest == [method |-> "", url |-> <<>>, headers |-> {}]

\* res.writeHead(statusCode, headers) on connection c.
WriteHead(c, code, names) ==
    heads' = [heads EXCEPT ![c] = Append(@, [statusCode |-> code, headers |-> names])]

\* The request handler of createServer, for a request on a free connection.
HandleRequest ==
    /\ relayUp
    /\ \E c \in Connections :
       \E method \in {"OPTIONS", "GET", "POST"} :
       \E path \in RequestUrls :
       \E sent \in ClientHeaders :
          LET targetUrl == Tail(path)
          IN /\ relayState[c] = "free"
             /\ relayRequests' = [relayRequests EXCEPT ![c] =
                   [method |-> method, url |-> path, headers |-> sent]]
             /\ IF method = "OPTIONS"
                THEN /\ WriteHead(c, 200, corsHeaders)
                     /\ relayState' = [relayState EXCEPT ![c] = "ended"]
                     /\ UNCHANGED upstreamRequests
                ELSE IF targetUrl = <<>> \/ ~startsWith(targetUrl, <<"h", "t", "t", "p">>)
                THEN /\ WriteHead(c, 400, corsHeaders \cup {"Content-Type"})
                     /\ relayState' = [relayState EXCEPT ![c] = "ended"]
                     /\ UNCHANGED upstreamRequests
                ELSE IF URLThrows(targetUrl)
                THEN /\ WriteHead(c, 400, corsHeaders \cup {"Content-Type"})
                     /\ relayState' = [relayState EXCEPT ![c] = "ended"]
                     /\ UNCHANGED upstreamRequests
                ELSE /\ upstreamRequests' = [upstreamRequests EXCEPT ![c] =
                           Append(@, [method |-> method,
                                      headers |-> UpstreamHeaders(sent)])]
                     /\ relayState' = [relayState EXCEPT ![c] = "forwarded"]
                     /\ UNCHANGED heads
    /\ UNCHANGED <<relayUp, exceptRelay>>

\* The response callback of protocol.request: the upstream head arrived.
ProxyResponse ==
    /\ relayUp
    /\ \E c \in Connections : \E proxyRes \in UpstreamResponses :
          /\ relayState[c] = "forwarded"
          /\ WriteHead(c, proxyRes.statusCode, corsHeaders \cup proxyRes.headers)
          /\ relayState' = [relayState EXCEPT ![c] = "piping"]
    /\ UNCHANGED <<relayRequests, upstreamRequests, relayUp, exceptRelay>>

\* proxyRes.pipe(res, { end: true }): the upstream body ended.
ProxyEnd ==
    /\ relayUp
    /\ \E c \in Connections :
          /\ relayState[c] = "piping"
          /\ relayState' = [relayState EXCEPT ![c] = "ended"]
    /\ UNCHANGED <<relayRequests, heads, upstreamRequests, relayUp, exceptRelay>>

\* res.headersSent
headersSent(c) == heads[c] # <<>>

\* proxyReq.on('error'): the upstream socket failed, before or after the
\* upstream head.  writeHead on a response whose head is out throws
\* ERR_HTTP_HEADERS_SENT; thrown from a listener it is an uncaught exception
\* and ends the process, which drops every open connection.
ProxyError ==
    /\ relayUp
    /\ \E c \in Connections :
          /\ relayState[c] \in {"forwarded", "piping"}
          /\ IF headersSent(c)
             THEN /\ relayUp' = FALSE
                  /\ relayState' =
                        [d \in Connections |->
                           IF relayState[d] \in {"forwarded", "piping"}
                           THEN "dropped" ELSE relayState[d]]
                  /\ UNCHANGED heads
             ELSE /\ WriteHead(c, 500, corsHeaders \cup {"Content-Type"})
                  /\ relayState' = [relayState EXCEPT ![c] = "ended"]
                  /\ UNCHANGED relayUp
    /\ UNCHANGED <<relayRequests, upstreamRequests, exceptRelay>>

RelayIdle ==
    /\ relayUp = TRUE
    /\ relayRequests = [c \in Connections |-> NoRequest]
    /\ relayState = [c \in Connections |-> "free"]
    /\ heads = [c \in Connections |-> <<>>]
    /\ upstreamRequests = [c \in Connections |-> <<>>]

\* ------------------------------------------- the app that fetches on demand

\* The birth dates of the live searches: the search runs from the birth year
\* to Math.min(birthYear + 50, 2100), so these give 1 to MaxYears years.
LiveBirthDates == {<<y, 6, 15>> : y \in (LastYear - MaxYears + 1)..LastYear}

\* The three requests of a year are sent.
Fetch(year) == [kind |-> "fetch", year |-> year]

\* The loop of findCosmicEvents from `year` on: the requests of the year are
\* sent, or the loop is over and the results are set.
LiveLoop(year, last, log) ==
    IF year <= last
    THEN /\ livePc' = "fetching"
         /\ liveYear' = year
         /\ liveEvents' = Append(log, Fetch(year))
    ELSE /\ livePc' = "done"
         /\ liveYear' = year
         /\ liveEvents' = log

\* findCosmicEvents of the live app, up to the first await.
StartLiveSearch ==
    /\ livePc = "idle"
    /\ birthDate # <<>>
    /\ LET birth == NewDateFromISO(birthDate, utcOffset)
           birthYear == getFullYear(birth)
       IN /\ liveBirthYear' = birthYear
          /\ liveEndYear' = Min(birthYear + 50, LastYear)
          /\ LiveLoop(birthYear, Min(birthYear + 50, LastYear), liveEvents)
    /\ UNCHANGED <<liveCollected, exceptLive>>

\* catch (yearError): the loop goes on with the next year.
YearFailed ==
    /\ LiveLoop(liveYear + 1, liveEndYear,
                Append(liveEvents, [kind |-> "failed", year |-> liveYear]))
    /\ UNCHANGED <<liveEndYear, liveCollected>>

\* The Promise.all of the year settles: with the data of the three requests,
\* or rejected because one of them failed.
YearSettles ==
    /\ livePc = "fetching"
    /\ \/ /\ liveCollected' = Append(liveCollected, liveYear)
          /\ IF liveYear < liveEndYear
             THEN /\ livePc' = "delay"
                  /\ UNCHANGED <<liveYear, liveEvents>>
             ELSE LiveLoop(liveYear + 1, liveEndYear, liveEvents)
          /\ UNCHANGED liveEndYear
       \/ YearFailed
    /\ UNCHANGED <<liveBirthYear, exceptLive>>

\* The 500 ms timer of the year fires.
LiveDelayElapsed ==
    /\ livePc = "delay"
    /\ LiveLoop(liveYear + 1, liveEndYear,
                Append(liveEvents, [kind |-> "delay", year |-> liveYear]))
    /\ UNCHANGED <<liveBirthYear, liveEndYear, liveCollected, exceptLive>>

LiveIdle ==
    /\ livePc = "idle"
    /\ liveBirthYear = 0
    /\ liveYear = 0
    /\ liveEndYear = 0
    /\ liveEvents = <<>>
    /\ liveCollected = <<>>

\* ------------------------------------------------------- fetchAllMoonData

\* The script runs 1960..2100; here the range has MaxMoonYears years.
moonYears == YearList(FirstYear, FirstYear + MaxMoonYears - 1)

\* if (processed % 10 === 0)
progressInterval == 10

\* A file is kept as its name, the run that wrote it and the number of years
\* its allData holds; the name of a progress file carries the processed count.
MoonProgressFile(count) == <<"moon-data-progress", count>>
MoonFinalFile == <<"moon-phases-1960-2100", 0>>

\* fs.writeFileSync(name, JSON.stringify(allData)): a file of that name is
\* replaced.
WriteFile(files, name, run, held) ==
    {f \in files : f.name # name}
       \cup {[name |-> name, run |-> run, held |-> held]}

\* allData of fetchAllMoonData; moonPhases is kept as the years it has an
\* entry for, the entries themselves being counted in successful and failed.
EmptyMoonData ==
    [metadata |-> [processed |-> -1, successful |-> -1, failed |-> -1],
     moonPhases |-> <<>>]

\* Variant: the loop resumes after the years of the newest progress file.
FirstIndex_fromCheckpoint(files) ==
    LET counts == {f.held : f \in {g \in files : g.name[1] = "moon-data-progress"}}
    IN IF counts = {} THEN 1
       ELSE 1 + (CHOOSE n \in counts : \A m \in counts : m <= n)

\* The position in years at which the loop of a run starts: nothing on disk
\* is read.
FirstIndex(files) == 1

\* The loop of fetchAllMoonData from position `index` on: the request of that
\* year is sent, or the loop is over and the final statistics and the final
\* file are written.
MoonLoop(run, index, data, done, ok, bad, files) ==
    IF index <= Len(moonYears)
    THEN /\ moonPc' = "fetching"
         /\ moonIndex' = index
         /\ moonFetched' = [moonFetched EXCEPT ![run] =
                               Append(@, moonYears[index])]
         /\ moonAllData' = data
         /\ moonFiles' = files
    ELSE /\ moonIndex' = index
         /\ moonFetched' = moonFetched
         /\ moonAllData' =
               [data EXCEPT !.metadata =
                  [processed |-> done, successful |-> ok, failed |-> bad]]
         /\ \E finalOk \in BOOLEAN :
               IF finalOk
               THEN /\ moonFiles' = WriteFile(files, MoonFinalFile, run,
                                              Len(data.moonPhases))
                    /\ moonPc' = "returned"
               ELSE /\ moonFiles' = files
                    /\ moonPc' = "rejected"

\* node fetch-moon-data.js: a run of the script, the first one or a re-run
\* after an interrupt or after the end of the run before.
StartMoonRun ==
    /\ moonPc \in {"idle", "interrupted", "returned", "rejected"}
    /\ moonRun < MaxRuns
    /\ moonRun' = moonRun + 1
    /\ processed' = 0
    /\ successful' = 0
    /\ failedCount' = 0
    /\ MoonLoop(moonRun + 1, FirstIndex(moonFiles), EmptyMoonData, 0, 0, 0, moonFiles)
    /\ UNCHANGED exceptMoonRun

\* await fetchMoonPhasesYear(year) resolves and the try block runs up to the
\* delay; a writeFileSync that throws is caught by the catch of the loop.
MoonYearSettles ==
    /\ moonPc = "fetching"
    /\ \E success \in BOOLEAN : \E writeOk \in BOOLEAN :
          LET year == moonYears[moonIndex]
              data == [moonAllData EXCEPT !.moonPhases = Append(@, year)]
              ok == IF success THEN successful + 1 ELSE successful
              bad == IF success THEN failedCount ELSE failedCount + 1
              done == processed + 1
              snapshot == done % progressInterval = 0
          IN /\ (~snapshot) => writeOk
             /\ processed' = done
             /\ successful' = ok
             /\ IF snapshot /\ ~writeOk
                THEN /\ failedCount' = bad + 1
                     /\ MoonLoop(moonRun, moonIndex + 1, data, done, ok, bad + 1, moonFiles)
                ELSE /\ failedCount' = bad
                     /\ moonPc' = "delay"
                     /\ moonAllData' = data
                     /\ moonFiles' =
                           IF snapshot
                           THEN WriteFile(moonFiles, MoonProgressFile(done),
                                          moonRun, Len(data.moonPhases))
                           ELSE moonFiles
                     /\ UNCHANGED <<moonIndex, moonFetched>>
    /\ UNCHANGED <<moonRun, exceptMoonRun>>

\* await delay(2000) is over: the next turn of the loop.
MoonDelayElapsed ==
    /\ moonPc = "delay"
    /\ MoonLoop(moonRun, moonIndex + 1, moonAllData, processed, successful, failedCount,
                moonFiles)
    /\ UNCHANGED <<moonRun, processed, successful, failedCount, exceptMoonRun>>

\* process.on('SIGINT'): process.exit(0) while the run waits.
MoonInterrupt ==
    /\ moonPc \in {"fetching", "delay"}
    /\ moonPc' = "interrupted"
    /\ UNCHANGED <<moonRun, moonIndex, moonAllData, processed, successful,
                   failedCount, moonFiles, moonFetched, exceptMoonRun>>

MoonRunIdle ==
    /\ moonPc = "idle"
    /\ moonRun = 0
    /\ moonIndex = 0
    /\ moonAllData = EmptyMoonData
    /\ processed = 0
    /\ successful = 0
    /\ failedCount = 0
    /\ moonFiles = {}
    /\ moonFetched = [r \in 1..MaxRuns |-> <<>>]

\* ------------------------------------------ the three eclipse classifiers

\* extractEclipseType(description, eclipseCategory) of test-eclipse-types
testExtractEclipseType(description, eclipseCategory) ==
    IF eclipseCategory = "solar"
    THEN IF includes(description, "   T   ") THEN "Total Solar Eclipse"
         ELSE IF includes(description, "   A   ") THEN "Annular Solar Eclipse"
         ELSE IF includes(description, "   P   ") THEN "Partial Solar Eclipse"
         ELSE IF includes(description, "   H   ") THEN "Hybrid Solar Eclipse"
         ELSE "Solar Eclipse"
    ELSE IF eclipseCategory = "lunar"
    THEN IF includes(description, "   T-  ") \/ includes(description, "   T+  ")
         THEN "Total Lunar Eclipse"
         ELSE IF includes(description, "   P   ") THEN "Partial Lunar Eclipse"
         ELSE IF includes(description, "   N   ") THEN "Penumbral Lunar Eclipse"
         ELSE "Lunar Eclipse"
    ELSE Capitalized(eclipseCategory)

\* extractEclipseType(description, eclipseCategory) of the database summary
summaryExtractEclipseType(description, eclipseCategory) ==
    IF eclipseCategory = "solar"
    THEN IF includes(description, "   T   ") THEN "Total"
         ELSE IF includes(description, "   A   ") THEN "Annular"
         ELSE IF includes(description, "   P   ") THEN "Partial"
         ELSE IF includes(description, "   H   ") THEN "Hybrid"
         ELSE "Unspecified"
    ELSE IF includes(description, "   T-  ") \/ includes(description, "   T+  ") THEN "Total"
         ELSE IF includes(description, "   P   ") THEN "Partial"
         ELSE IF includes(description, "   N   ") THEN "Penumbral"
         ELSE "Unspecified"

SolarMarkers == {"   T   ", "   A   ", "   P   ", "   H   "}
LunarMarkers == {"   T-  ", "   T+  ", "   P   ", "   N   "}

\* The fields a description is made of: the markers and a field that is none.
Fields == SolarMarkers \cup LunarMarkers \cup {"0129"}

\* The descriptions of up to MaxFields fields.
FieldLists == UNION {[1..n -> Fields] : n \in 0..MaxFields}

\* One description classified by the three copies of the classifier.
ClassifyEclipse ==
    /\ labels = <<>>
    /\ labels' = <<[app |-> extractEclipseType(classifiedDescription, classifiedCategory),
                    test |-> testExtractEclipseType(classifiedDescription, classifiedCategory),
                    summary |-> summaryExtractEclipseType(classifiedDescription,
                                                          classifiedCategory)]>>
    /\ UNCHANGED <<classifiedDescription, classifiedCategory, exceptClassify>>

ClassifyIdle ==
    /\ classifiedDescription = <<>>
    /\ classifiedCategory = "solar"
    /\ labels = <<>>

\* ------------------------------------------------------------ makeRequest

\* The chunks of a body of n chunks: chunk j is <<kind, j, n>>.
Body(kind, n) == [j \in 1..n |-> <<kind, j, n>>]

\* The bodies a server may give: the JSON of a year's phases, a JSON object
\* without phasedata, the JSON null, and a page that is no JSON.
BodyKinds == {"phasedata", "no phasedata", "null", "html"}
Bodies == {Body(kind, n) : kind \in BodyKinds, n \in 0..MaxChunks}
StatusCodes == {200, 404, 500}

\* When the connection closes after the response head and before the end of
\* the body, the HTTP client of older runtimes ends the response stream
\* ('end' fires with what was received) and that of newer ones emits
\* 'aborted' and 'close' only.
Runtimes == {"end on abort", "no end on abort"}

Pending == [state |-> "pending", value |-> <<>>]

\* resolve(value) / reject(reason): only the first call settles the promise.
Settle(p, state, value) ==
    IF p.state = "pending" THEN [state |-> state, value |-> value] ELSE p

\* module.request(options, (res) => ...): the response head arrives.
ResponseHead ==
    /\ conn = "open"
    /\ conn' = "head"
    /\ UNCHANGED <<runtime, statusCode, body, chunks, promise, settleCalls,
                   yearRecord, exceptRequest>>

\* res.on('data', chunk => data += chunk)
ResData ==
    /\ conn = "head"
    /\ Len(chunks) < Len(body)
    /\ chunks' = Append(chunks, body[Len(chunks) + 1])
    /\ UNCHANGED <<runtime, statusCode, body, conn, promise, settleCalls,
                   yearRecord, exceptRequest>>

\* res.on('end'): resolve(data) on status 200, reject(HTTP status) otherwise.
EndOutcome(status, received) ==
    IF status = 200 THEN <<"fulfilled", received>>
    ELSE <<"rejected", <<"HTTP", status>>>>

\* res 'end': after the last chunk, or, with a runtime that ends a response
\* cut short, after the connection closed.
ResEnd ==
    /\ \/ conn = "head" /\ Len(chunks) = Len(body)
       \/ conn = "aborted" /\ runtime = "end on abort"
    /\ LET outcome == EndOutcome(statusCode, chunks)
       IN /\ promise' = Settle(promise, outcome[1], outcome[2])
          /\ settleCalls' = Append(settleCalls, outcome)
    /\ conn' = IF conn = "head" THEN "ended" ELSE "closed"
    /\ UNCHANGED <<runtime, statusCode, body, chunks, yearRecord, exceptRequest>>

\* req.on('error', err => reject(err)): the connection fails before the
\* response head, or the destroyed request reports its socket hang up.
ReqError ==
    /\ conn \in {"open", "destroyed"}
    /\ promise' = Settle(promise, "rejected", <<"ECONNRESET">>)
    /\ settleCalls' = Append(settleCalls, <<"rejected", <<"ECONNRESET">>>>)
    /\ conn' = "closed"
    /\ UNCHANGED <<runtime, statusCode, body, chunks, yearRecord, exceptRequest>>

\* req.on('timeout'): req.destroy(); reject(new Error('Request timeout')).
\* A request destroyed before the response head emits 'error' next; one
\* destroyed after it leaves a response cut short.
ReqTimeout ==
    /\ conn \in {"open", "head"}
    /\ promise' = Settle(promise, "rejected", <<"Request timeout">>)
    /\ settleCalls' = Append(settleCalls, <<"rejected", <<"Request timeout">>>>)
    /\ conn' = IF conn = "open" THEN "destroyed" ELSE "aborted"
    /\ UNCHANGED <<runtime, statusCode, body, chunks, yearRecord, exceptRequest>>

\* The connection closes after the response head and before the end of the
\* body: neither req 'error' nor req 'timeout' is emitted.
ConnectionLost ==
    /\ conn = "head"
    /\ Len(chunks) < Len(body)
    /\ conn' = "aborted"
    /\ UNCHANGED <<runtime, statusCode, body, chunks, promise, settleCalls,
                   yearRecord, exceptRequest>>

\* ----------------------------------------------------- fetchMoonPhasesYear

\* The phasedata of the year's JSON.
Phasedata == <<"New Moon", "First Quarter", "Full Moon">>

\* The string is the whole of a body.
WholeBody(response) ==
    /\ response # <<>>
    /\ response = Body(response[1][1], response[1][3])

\* Variant: a response without phasedata is returned as a success.
YearResult_alwaysSuccess(year, outcome) ==
    [year |-> year, success |-> TRUE, error |-> NoError, phases |-> <<>>,
     count |-> 0]

\* The try / catch of fetchMoonPhasesYear(year) on the settled request;
\* count -1 stands for no count field.
YearResult(year, outcome) ==
    IF outcome.state = "rejected"
    THEN [year |-> year, success |-> FALSE, error |-> outcome.value,
          phases |-> <<>>, count |-> -1]
    ELSE IF ~WholeBody(outcome.value) \/ outcome.value[1][1] = "html"
    THEN [year |-> year, success |-> FALSE, error |-> <<"SyntaxError">>,
          phases |-> <<>>, count |-> -1]
    ELSE IF outcome.value[1][1] = "phasedata"
    THEN [year |-> year, success |-> TRUE, error |-> NoError,
          phases |-> Phasedata, count |-> Len(Phasedata)]
    ELSE [year |-> year, success |-> FALSE,
          error |-> <<"No phase data in response">>, phases |-> <<>>,
          count |-> -1]

\* fetchMoonPhasesYear resumes after await makeRequest(url) and returns.
fetchMoonPhasesYear ==
    /\ promise.state # "pending"
    /\ yearRecord = <<>>
    /\ yearRecord' = <<YearResult(FirstYear, promise)>>
    /\ UNCHANGED <<runtime, statusCode, body, conn, chunks, promise, settleCalls,
                   exceptRequest>>

RequestIdle ==
    /\ runtime = "no end on abort"
    /\ statusCode = 200
    /\ body = <<>>
    /\ conn = "closed"
    /\ chunks = <<>>
    /\ promise = Pending
    /\ settleCalls = <<>>
    /\ yearRecord = <<>>

\* ----------------------------------------------------- fetchAllCosmicData

masterFile == "cosmic-database-complete.json"
partialFile == "cosmic-database-partial.json"

\* What fetchAllMoonData may resolve with; totalPhases 0 also stands for a
\* missing count.
MoonStageResults == {[metadata |-> [totalPhases |-> n]] : n \in 0..MaxTotal}

\* What fetchAllEclipseData may resolve with.
EclipseStageResults ==
    {[metadata |-> [totalSolarEclipses |-> s, totalLunarEclipses |-> l]] :
        s \in 0..MaxTotal, l \in 0..MaxTotal}

\* masterData before step 1; totals of -1 stand for fields not set yet.
EmptyMaster ==
    [metadata |-> [totalMoonPhases |-> -1, totalSolarEclipses |-> -1,
                   totalLunarEclipses |-> -1, totalEvents |-> -1],
     moonPhases |-> <<>>, eclipses |-> <<>>]

\* Step 3: the totals of the metadata.
Finalized(master) ==
    LET moon == master.moonPhases[1].metadata.totalPhases
        solar == master.eclipses[1].metadata.totalSolarEclipses
        lunar == master.eclipses[1].metadata.totalLunarEclipses
    IN [master EXCEPT !.metadata =
          [totalMoonPhases |-> moon, totalSolarEclipses |-> solar,
           totalLunarEclipses |-> lunar, totalEvents |-> moon + solar + lunar]]

\* if (masterData.moonPhases || masterData.eclipses)
HasPartialData(master) == master.moonPhases # <<>> \/ master.eclipses # <<>>

\* The catch block: save the partial data if there is any, then throw error;
\* a writeFileSync that fails throws its own error out of the block.
Catch(error, master, files) ==
    /\ cpc' = "rejected"
    /\ masterData' = master
    /\ UNCHANGED <<reportedComplete>>
    /\ IF HasPartialData(master)
       THEN \E partialOk \in BOOLEAN :
               IF partialOk
               THEN /\ cosmicFiles' = files @@ (partialFile :> master)
                    /\ thrown' = error
               ELSE /\ cosmicFiles' = files
                    /\ thrown' = "partial write failed"
       ELSE /\ cosmicFiles' = files
            /\ thrown' = error

\* fetchAllCosmicData() up to its first await.
StartCosmic ==
    /\ cpc = "idle"
    /\ cpc' = "moon"
    /\ stagesStarted' = <<"fetchAllMoonData">>
    /\ UNCHANGED <<masterData, cosmicFiles, thrown, reportedComplete,
                   exceptCosmic>>

\* await fetchAllMoonData() settles; on success the eclipse stage starts.
MoonStageSettles ==
    /\ cpc = "moon"
    /\ \/ \E moonData \in MoonStageResults :
             /\ masterData' = [masterData EXCEPT !.moonPhases = <<moonData>>]
             /\ stagesStarted' = Append(stagesStarted, "fetchAllEclipseData")
             /\ cpc' = "eclipse"
             /\ UNCHANGED <<cosmicFiles, thrown, reportedComplete>>
       \/ /\ Catch("moon stage failed", masterData, cosmicFiles)
          /\ UNCHANGED stagesStarted
    /\ UNCHANGED exceptCosmic

\* await fetchAllEclipseData() settles; on success step 3 writes the master
\* file, reads its size and returns.
EclipseStageSettles ==
    /\ cpc = "eclipse"
    /\ \/ \E eclipseStageData \in EclipseStageResults :
          \E writeOk, statOk \in BOOLEAN :
             LET master == Finalized([masterData EXCEPT
                                        !.eclipses = <<eclipseStageData>>])
                 written == cosmicFiles @@ (masterFile :> master)
             IN IF ~writeOk
                THEN Catch("master write failed", master, cosmicFiles)
                ELSE IF ~statOk
                THEN Catch("stat failed", master, written)
                ELSE /\ cpc' = "returned"
                     /\ masterData' = master
                     /\ cosmicFiles' = written
                     /\ reportedComplete' = TRUE
                     /\ UNCHANGED thrown
       \/ Catch("eclipse stage failed", masterData, cosmicFiles)
    /\ UNCHANGED <<stagesStarted, exceptCosmic>>

CosmicIdle ==
    /\ cpc = "idle"
    /\ masterData = EmptyMaster
    /\ cosmicFiles = <<>>
    /\ thrown = NoError
    /\ reportedComplete = FALSE
    /\ stagesStarted = <<>>

\* ---------------------------------------------------- parseNASAEclipseData

\* A line is kept as the date-like pieces it holds, from left to right; a
\* piece is what one of the three patterns matches, with the month as the
\* text has it: "name" for
\* /(\d{4})\s+(\w{3})\s+(\d{1,2})/, "iso" for /(\d{4})-(\d{2})-(\d{2})/ and
\* "us" for /(\d{1,2})\/(\d{1,2})\/(\d{4})/.  A line without pieces matches
\* no pattern.
Piece(fmt, year, month, day) ==
    [fmt |-> fmt, year |-> year, month |-> month, day |-> day]

CatalogLines ==
    { <<>>,
      <<Piece("name", 2024, "Apr", 8)>>,
      <<Piece("name", 1959, "Apr", 8)>>,
      <<Piece("name", 2024, "Xyz", 8), Piece("iso", 2024, "04", 8)>>,
      <<Piece("iso", 2023, "10", 14), Piece("name", 2024, "Apr", 8)>>,
      <<Piece("iso", 2024, "13", 8)>>,
      <<Piece("iso", 2024, "00", 8)>>,
      <<Piece("us", 2024, "4", 8)>>,
      <<Piece("us", 2024, "25", 3)>> }

\* parseInt of the month digits the lines hold.
parseInt(digits) ==
    CASE digits = "00" -> 0
      [] digits = "04" -> 4
      [] digits = "4" -> 4
      [] digits = "10" -> 10
      [] digits = "13" -> 13
      [] digits = "25" -> 25

\* The catalog texts of up to MaxLines lines.
CatalogTexts == UNION {[1..n -> CatalogLines] : n \in 0..MaxLines}

nasaMonthMap ==
    [Jan |-> 1, Feb |-> 2, Mar |-> 3, Apr |-> 4, May |-> 5, Jun |-> 6,
     Jul |-> 7, Aug |-> 8, Sep |-> 9, Oct |-> 10, Nov |-> 11, Dec |-> 12]

datePatterns == <<"name", "iso", "us">>

\* line.match(pattern): the leftmost piece of the pattern's format, as
\* <<piece>>, or <<>> for null.
Match(line, fmt) ==
    LET hits == {k \in DOMAIN line : line[k].fmt = fmt}
    IN IF hits = {} THEN <<>> ELSE <<line[Least(hits)]>>

\* The body of "if (match)": the record pushed for the match, if any; a
\* month name that monthMap lacks gives undefined, kept as 0.
Pushed(piece, type) ==
    LET year == piece.year
        month == IF piece.fmt = "name"
                 THEN (IF piece.month \in DOMAIN nasaMonthMap
                       THEN nasaMonthMap[piece.month] ELSE 0)
                 ELSE parseInt(piece.month)
        day == piece.day
    IN IF year # 0 /\ month # 0 /\ day # 0 /\ year >= 1960 /\ year <= 2100
       THEN <<EclipseRecord(Y(year), month, day, type, "NASA Eclipse Catalog")>>
       ELSE <<>>

\* Variant: every pattern is tried, also after one has matched.
ParseLine_noBreak(line, type) ==
    LET P[k \in 0..Len(datePatterns)] ==
            IF k = 0 THEN <<>>
            ELSE IF Match(line, datePatterns[k]) = <<>> THEN P[k - 1]
            ELSE P[k - 1] \o Pushed(Match(line, datePatterns[k])[1], type)
    IN P[Len(datePatterns)]

\* for (const pattern of datePatterns): the first pattern that matches
\* decides, then break.
ParseLine(line, type) ==
    LET matching == {k \in DOMAIN datePatterns :
                        Match(line, datePatterns[k]) # <<>>}
    IN IF matching = {} THEN <<>>
       ELSE Pushed(Match(line, datePatterns[Least(matching)])[1], type)

\* parseNASAEclipseData(data, eclipseType)
parseNASAEclipseData(lines, type) ==
    LET E[k \in 0..Len(lines)] ==
            IF k = 0 THEN <<>> ELSE E[k - 1] \o ParseLine(lines[k], type)
    IN E[Len(lines)]

\* fetchNASAEclipses(eclipseType): the catalog text is parsed.
ParseCatalog ==
    /\ mpc = "fetching"
    /\ fromNASA' = parseNASAEclipseData(catalogText, eclipseType)
    /\ mpc' = "fetched"
    /\ UNCHANGED <<eclipseType, calculated, eclipseList, selfMerged, catalogText,
                   exceptParse>>

ParseIdle == catalogText = <<>>

\* ------------------------------------------------------- fetchNASAEclipses

\* urls[eclipseType]: two catalog pages for each type.
nasaUrls(type) ==
    IF type = "solar"
    THEN <<"SEcat5/SE2001-2100.html", "SEcat5/SE1901-2000.html">>
    ELSE IF type = "lunar"
    THEN <<"LEcat5/LE2001-2100.html", "LEcat5/LE1901-2000.html">>
    ELSE <<>>

\* What a catalog page can hold: no line, or one of the lines.
NasaPages == {text \in CatalogTexts : Len(text) <= 1}

\* What the promise of makeRequest(url, 45000) can do: resolve with the body
\* of a 200, reject (another status, a request error, the timeout), or stay
\* pending for ever when the connection is lost after the response head.
RequestOutcomes == {"resolved", "rejected", "never settles"}

\* The for loop of fetchNASAEclipses from position `index` on: the request of
\* that URL is sent, or the loop is over and allEclipses is returned.
NasaLoop(index, list) ==
    IF index <= Len(nasaUrls(eclipseType))
    THEN /\ nasaPc' = "request"
         /\ nasaUrl' = index
         /\ nasaRequested' = Append(nasaRequested, nasaUrls(eclipseType)[index])
         /\ allEclipses' = list
         /\ UNCHANGED <<mpc, fromNASA>>
    ELSE /\ nasaPc' = "returned"
         /\ nasaUrl' = index
         /\ nasaRequested' = nasaRequested
         /\ allEclipses' = list
         /\ fromNASA' = list
         /\ mpc' = "fetched"

\* fetchNASAEclipses(eclipseType) is called.
StartNasaFetch ==
    /\ mpc = "fetching"
    /\ nasaPc = "idle"
    /\ NasaLoop(1, <<>>)
    /\ UNCHANGED <<eclipseType, calculated, eclipseList, selfMerged, exceptNasa>>

\* catch (error): the loop goes on with the next URL.
RequestRejected == NasaLoop(nasaUrl + 1, allEclipses)

\* await makeRequest(url, 45000) is over, or never will be.
NasaRequestSettles ==
    /\ nasaPc = "request"
    /\ \E outcome \in RequestOutcomes :
          \/ /\ outcome = "resolved"
             /\ \E response \in NasaPages :
                   allEclipses' = allEclipses
                      \o parseNASAEclipseData(response, eclipseType)
             /\ nasaPc' = "delay"
             /\ UNCHANGED <<nasaUrl, nasaRequested, mpc, fromNASA>>
          \/ /\ outcome = "rejected"
             /\ RequestRejected
          \/ /\ outcome = "never settles"
             /\ nasaPc' = "hung"
             /\ UNCHANGED <<nasaUrl, nasaRequested, allEclipses, mpc, fromNASA>>
    /\ UNCHANGED <<eclipseType, calculated, eclipseList, selfMerged, exceptNasa>>

\* await delay(3000) is over.
NasaDelayElapsed ==
    /\ nasaPc = "delay"
    /\ NasaLoop(nasaUrl + 1, allEclipses)
    /\ UNCHANGED <<eclipseType, calculated, eclipseList, selfMerged, exceptNasa>>

NasaIdle ==
    /\ nasaPc = "idle"
    /\ nasaUrl = 0
    /\ allEclipses = <<>>
    /\ nasaRequested = <<>>

UiIdle ==
    /\ displayDate = <<>>
    /\ loading = FALSE
    /\ uiError = ""
    /\ queryLog = <<>>

LaterIdle == UiIdle /\ RelayIdle /\ LiveIdle /\ MoonRunIdle /\ NasaIdle

OtherIdle ==
    /\ MatchIdle /\ ClassifyIdle /\ RequestIdle /\ CosmicIdle /\ ParseIdle
    /\ LaterIdle

MergeIdle ==
    /\ mpc = "idle"
    /\ eclipseType = "solar"
    /\ fromNASA = <<>>
    /\ calculated = <<>>
    /\ eclipseList = <<>>
    /\ selfMerged = <<>>

BatchIdle ==
    /\ pc = "idle"
    /\ i = startYear
    /\ batchYears = <<>>
    /\ moonResults = <<>>
    /\ eclipseResults = <<>>
    /\ allData = EmptyData
    /\ successCount = 0
    /\ errorCount = 0
    /\ batches = <<>>
    /\ events = <<>>
    /\ writes = <<>>
    /\ disk = {}
    /\ failedFetches = 0
    /\ okFetches = 0

\* The script runs 1960..2100 in batches of 5; here the range starts at 1960
\* and has up to MaxSpan years, and the batch size is 1..MaxBatch, so that
\* full batches, a short last batch and a single batch all occur.
Init ==
    /\ startYear = FirstYear
    /\ endYear \in startYear .. startYear + MaxSpan - 1
    /\ batchSize \in 1 .. MaxBatch
    /\ BatchIdle
    /\ MergeIdle
    /\ OtherIdle

Next ==
    \/ Start
    \/ SettleMoon
    \/ SettleEclipse
    \/ BatchDone
    \/ DelayElapsed

Spec == Init /\ [][Next]_vars

\* Every request settles (it has a timeout), every timer fires and the event
\* loop runs every continuation that is ready.
FairSpec == Spec /\ WF_vars(Next)

\* fetchAllEclipseData after the NASA fetch of one eclipse type.
InitMerge ==
    /\ startYear = FirstYear
    /\ endYear = FirstYear
    /\ batchSize = 1
    /\ BatchIdle
    /\ mpc = "fetched"
    /\ eclipseType \in {"solar", "lunar"}
    /\ fromNASA \in NasaLists(eclipseType)
    /\ calculated = <<>>
    /\ eclipseList = <<>>
    /\ selfMerged = <<>>
    /\ OtherIdle

NextMerge ==
    \/ Combine
    \/ MergeWithItself

SpecMerge == InitMerge /\ [][NextMerge]_vars

\* The fetch scripts are not running.
PipelineIdle ==
    /\ startYear = FirstYear
    /\ endYear = FirstYear
    /\ batchSize = 1
    /\ BatchIdle
    /\ MergeIdle

\* The app with a dataset, a stored birth date and the machine's timezone.
InitMatch ==
    /\ PipelineIdle
    /\ utcOffset \in UtcOffsets
    /\ birthDate \in BirthDates
    /\ \E s \in Picks : \E failed \in {{}, {2000}} :
          /\ moonPhaseData = MoonDataset(s, failed)
          /\ eclipseData = EclipseDataset(s)
    /\ searchResults = <<>>
    /\ fallbackResults = <<>>
    /\ ClassifyIdle
    /\ RequestIdle
    /\ CosmicIdle
    /\ ParseIdle
    /\ LaterIdle

NextMatch ==
    \/ findCosmicEvents
    \/ ProcessFetched

SpecMatch == InitMatch /\ [][NextMatch]_vars

\* A description and a category handed to the classifiers.
InitClassify ==
    /\ PipelineIdle
    /\ MatchIdle
    /\ classifiedDescription \in FieldLists
    /\ classifiedCategory \in {"solar", "lunar"}
    /\ labels = <<>>
    /\ RequestIdle
    /\ CosmicIdle
    /\ ParseIdle
    /\ LaterIdle

NextClassify == ClassifyEclipse

SpecClassify == InitClassify /\ [][NextClassify]_vars

\* fetchMoonPhasesYear(1960) has called makeRequest: the request is sent.
InitRequest ==
    /\ PipelineIdle
    /\ MatchIdle
    /\ ClassifyIdle
    /\ runtime \in Runtimes
    /\ statusCode \in StatusCodes
    /\ body \in Bodies
    /\ conn = "open"
    /\ chunks = <<>>
    /\ promise = Pending
    /\ settleCalls = <<>>
    /\ yearRecord = <<>>
    /\ CosmicIdle
    /\ ParseIdle
    /\ LaterIdle

NextRequest ==
    \/ ResponseHead
    \/ ResData
    \/ ResEnd
    \/ ReqError
    \/ ReqTimeout
    \/ ConnectionLost
    \/ fetchMoonPhasesYear

SpecRequest == InitRequest /\ [][NextRequest]_vars

\* The master build before it is run.
InitCosmic ==
    /\ PipelineIdle
    /\ MatchIdle
    /\ ClassifyIdle
    /\ RequestIdle
    /\ CosmicIdle
    /\ ParseIdle
    /\ LaterIdle

NextCosmic ==
    \/ StartCosmic
    \/ MoonStageSettles
    \/ EclipseStageSettles

SpecCosmic == InitCosmic /\ [][NextCosmic]_vars

\* fetchAllEclipseData at the NASA fetch of one eclipse type, with the text
\* the catalog pages gave.
InitParse ==
    /\ startYear = FirstYear
    /\ endYear = FirstYear
    /\ batchSize = 1
    /\ BatchIdle
    /\ MatchIdle
    /\ ClassifyIdle
    /\ RequestIdle
    /\ CosmicIdle
    /\ mpc = "fetching"
    /\ eclipseType \in {"solar", "lunar"}
    /\ catalogText \in CatalogTexts
    /\ fromNASA = <<>>
    /\ calculated = <<>>
    /\ eclipseList = <<>>
    /\ selfMerged = <<>>
    /\ LaterIdle

NextParse ==
    \/ ParseCatalog
    \/ Combine

SpecParse == InitParse /\ [][NextParse]_vars

\* The page as it is first rendered, with the imported datasets and the
\* machine's timezone.
InitApp ==
    /\ PipelineIdle
    /\ utcOffset \in UtcOffsets
    /\ birthDate = <<>>
    /\ \/ \E s \in AppPicks : \E failed \in {{}, {2000}} :
             /\ moonPhaseData = MoonDataset(s, failed)
             /\ eclipseData = EclipseDataset(s)
       \/ /\ moonPhaseData = NoMoonPhases
          /\ eclipseData = EclipseDataset(<<>>)
    /\ searchResults = null
    /\ fallbackResults = <<>>
    /\ ClassifyIdle
    /\ RequestIdle
    /\ CosmicIdle
    /\ ParseIdle
    /\ UiIdle
    /\ RelayIdle
    /\ LiveIdle
    /\ MoonRunIdle
    /\ NasaIdle

NextApp ==
    \/ handleDateChange
    \/ ClickSearch
    \/ SearchBody

SpecApp == InitApp /\ [][NextApp]_vars

\* The relay listening, with no request yet.
InitRelay ==
    /\ PipelineIdle
    /\ OtherIdle

NextRelay ==
    \/ HandleRequest
    \/ ProxyResponse
    \/ ProxyEnd
    \/ ProxyError

SpecRelay == InitRelay /\ [][NextRelay]_vars

\* The live app with a stored birth date, before the search button is
\* clicked.
InitLive ==
    /\ PipelineIdle
    /\ utcOffset \in UtcOffsets
    /\ birthDate \in LiveBirthDates
    /\ moonPhaseData = MoonDataset(<<>>, {})
    /\ eclipseData = EclipseDataset(<<>>)
    /\ searchResults = <<>>
    /\ fallbackResults = <<>>
    /\ ClassifyIdle
    /\ RequestIdle
    /\ CosmicIdle
    /\ ParseIdle
    /\ LaterIdle

NextLive ==
    \/ StartLiveSearch
    \/ YearSettles
    \/ LiveDelayElapsed

SpecLive == InitLive /\ [][NextLive]_vars

\* The moon script before its first run, with nothing on disk.
InitMoonRun ==
    /\ PipelineIdle
    /\ OtherIdle

NextMoonRun ==
    \/ StartMoonRun
    \/ MoonYearSettles
    \/ MoonDelayElapsed
    \/ MoonInterrupt

SpecMoonRun == InitMoonRun /\ [][NextMoonRun]_vars

\* fetchAllEclipseData at the call of fetchNASAEclipses for one eclipse type.
InitNasa ==
    /\ startYear = FirstYear
    /\ endYear = FirstYear
    /\ batchSize = 1
    /\ BatchIdle
    /\ mpc = "fetching"
    /\ eclipseType \in {"solar", "lunar"}
    /\ fromNASA = <<>>
    /\ calculated = <<>>
    /\ eclipseList = <<>>
    /\ selfMerged = <<>>
    /\ OtherIdle

NextNasa ==
    \/ StartNasaFetch
    \/ NasaRequestSettles
    \/ NasaDelayElapsed
    \/ Combine

SpecNasa == InitNasa /\ [][NextNasa]_vars

\* Every request that will settle does, every timer fires and the event loop
\* runs every continuation of fetchNASAEclipses that is ready.
FairSpecNasa ==
    SpecNasa /\ WF_vars(StartNasaFetch \/ NasaRequestSettles \/ NasaDelayElapsed)

\* ------------------------------------------------------------------ claims

Finished == pc \in {"returned", "rejected"}

Years == startYear .. endYear

\* How many times year y was put in a batch.
Occurrences(y) ==
    Cardinality({bk \in UNION {{<<b, k>> : k \in DOMAIN batches[b]} :
                                  b \in DOMAIN batches} :
                   batches[bk[1]][bk[2]] = y})

\* The number of batches whose results have been stored.
NumStored == Cardinality({k \in DOMAIN events : events[k] = "store"})

\* The years of the batches whose results have been stored.
ProcessedYears == UNION {Range(batches[b]) : b \in 1..NumStored}

HasEntries(data, ys) ==
    /\ \A y \in ys : y \in DOMAIN data.moonPhases /\ data.moonPhases[y].year = y
    /\ \A y \in ys : y \in DOMAIN data.eclipses /\ data.eclipses[y].year = y

\* C1: every batch holds only years of [startYear, endYear], at most
\* batchSize of them, no year is put in two batches, and when the run is over
\* every year of [startYear, endYear] was put in exactly one batch, so
\* endYear - startYear + 1 distinct years were fetched.
C1_EveryYearInExactlyOneBatch ==
    /\ \A b \in DOMAIN batches :
          /\ Len(batches[b]) \in 1..batchSize
          /\ Range(batches[b]) \subseteq Years
    /\ \A y \in UNION {Range(batches[b]) : b \in DOMAIN batches} :
          Occurrences(y) = 1
    /\ Finished =>
          /\ \A y \in Years : Occurrences(y) = 1
          /\ Cardinality(UNION {Range(batches[b]) : b \in DOMAIN batches})
                = endYear - startYear + 1

\* A finished run whose last batch is shorter than the batch size.
C1_Witness ==
    /\ Finished
    /\ batchSize = 2
    /\ Len(batches) = 2
    /\ Len(batches[2]) = 1

C3_CountsMatchFailures ==
    Finished =>
       /\ allData.metadata.errorCount = failedFetches
       /\ allData.metadata.successCount = okFetches

AllYearsStored ==
    /\ HasEntries(allData, Years)
    /\ writes # <<>>
    /\ writes[Len(writes)].file = finalFile

ProgressWrites == SelectSeq(writes, LAMBDA w : w.file = progressFile)
FinalWrites == SelectSeq(writes, LAMBDA w : w.file = finalFile)

\* C5: one progress snapshot is written per batch, the k-th holding entries
\* for exactly the years from startYear to the last year of batch k, and the
\* final file is written once, after the last batch's snapshot.
C5_SnapshotPerBatch ==
    /\ Len(ProgressWrites) = NumStored
    /\ \A k \in DOMAIN ProgressWrites :
          LET last == batches[k][Len(batches[k])]
          IN /\ DOMAIN ProgressWrites[k].data.moonPhases = startYear..last
             /\ DOMAIN ProgressWrites[k].data.eclipses = startYear..last
             /\ writes[k] = ProgressWrites[k]
    /\ Len(FinalWrites) = (IF Finished THEN 1 ELSE 0)
    /\ Finished =>
          /\ Len(ProgressWrites) = Len(batches)
          /\ writes[Len(writes)].file = finalFile
          /\ DOMAIN writes[Len(writes)].data.moonPhases = Years

\* A finished run of three batches: three snapshots and the final file.
C5_Witness ==
    /\ Finished
    /\ Len(batches) = 3
    /\ Len(writes) = 4

NumEvents(e) == Cardinality({k \in DOMAIN events : events[k] = e})

\* C6: a delay comes only right after a batch's results are stored and is
\* followed only by the issue of the next batch; every batch but the first
\* is issued right after a delay; during a delay no request is in flight and
\* every issued year is stored; a run of n batches has n - 1 delays.
C6_DelayBetweenBatches ==
    /\ \A k \in DOMAIN events :
          /\ events[k] = "delay" =>
                /\ k > 1 /\ events[k - 1] = "store"
                /\ k < Len(events) => events[k + 1] = "issue"
          /\ (events[k] = "issue" /\ k > 1) => events[k - 1] = "delay"
          /\ events[k] = "final" => events[k - 1] = "store"
    /\ pc = "delay" =>
          /\ AllSettled
          /\ HasEntries(allData, UNION {Range(batches[b]) : b \in DOMAIN batches})
    /\ Finished => NumEvents("delay") = Len(batches) - 1

\* A finished run of three batches, with its two delays.
C6_Witness ==
    /\ Finished
    /\ Len(batches) = 3
    /\ NumEvents("delay") = 2

\* C7: once a batch is stored, the entry under each of its years is the
\* result of the fetch started for that year, whatever the order in which
\* the fetches settled, and it carries that year's data; storing a batch
\* leaves the entries of the other years as they were.
C7_OwnKey ==
    /\ [](pc \in {"delay", "returned", "rejected"} =>
            \A k \in DOMAIN batchYears :
               /\ allData.moonPhases[batchYears[k]] = moonResults[k]
               /\ allData.eclipses[batchYears[k]] = eclipseResults[k]
               /\ allData.moonPhases[batchYears[k]].data
                     \in {<<>>, MoonBody(batchYears[k])})
    /\ [][/\ \A y \in DOMAIN allData.moonPhases :
               /\ y \in DOMAIN allData'.moonPhases
               /\ allData'.moonPhases[y] = allData.moonPhases[y]
          /\ \A y \in DOMAIN allData.eclipses :
               /\ y \in DOMAIN allData'.eclipses
               /\ allData'.eclipses[y] = allData.eclipses[y]]_vars

\* A stored batch of two years whose two moon results differ.
C7_Witness ==
    /\ pc = "delay"
    /\ Len(batchYears) = 2
    /\ allData.moonPhases[batchYears[1]].error # NoError
    /\ allData.moonPhases[batchYears[2]].error = NoError
    /\ allData.eclipses[batchYears[1]].solar # <<>>
    /\ allData.eclipses[batchYears[2]].solar = <<>>

\* The dedupe key of the merge.
YearMonth(r) == <<r.year, r.month>>

UniqueYearMonth(list) ==
    \A a, b \in DOMAIN list : a # b => YearMonth(list[a]) # YearMonth(list[b])

YearSorted(list) ==
    \A a, b \in DOMAIN list : a < b => list[a].year <= list[b].year

\* C8: when a non-empty NASA list is merged with the calculated list, the
\* result has no two records with the same (year, month); every record of
\* the result is the first one of its (year, month) in NASA-then-calculated
\* and every (year, month) of the inputs is kept, so that a (year, month)
\* NASA has is represented by a NASA record; the years do not decrease.
C8_MergeKeepsFirstPerYearMonth ==
    (mpc = "combined" /\ fromNASA # <<>>) =>
       LET cat == fromNASA \o calculated
       IN /\ UniqueYearMonth(eclipseList)
          /\ \A k \in DOMAIN eclipseList :
                \E j \in DOMAIN cat :
                   /\ cat[j] = eclipseList[k]
                   /\ \A h \in 1..(j - 1) : YearMonth(cat[h]) # YearMonth(cat[j])
          /\ \A j \in DOMAIN cat :
                \E k \in DOMAIN eclipseList :
                   YearMonth(eclipseList[k]) = YearMonth(cat[j])
          /\ \A j \in DOMAIN fromNASA :
                \E k \in DOMAIN eclipseList :
                   /\ YearMonth(eclipseList[k]) = YearMonth(fromNASA[j])
                   /\ eclipseList[k].source = "NASA Eclipse Catalog"
          /\ YearSorted(eclipseList)

\* A merge in which the NASA list has two records of April 2024 with
\* different days and the calculated list has April 8, 2024: the first NASA
\* record is the one of April 2024 in the result.
C8_Witness ==
    /\ mpc = "combined"
    /\ eclipseType = "solar"
    /\ Len(fromNASA) = 2
    /\ fromNASA[1] = EclipseRecord(Y(2024), 4, 14, "solar", "NASA Eclipse Catalog")
    /\ fromNASA[2] = EclipseRecord(Y(2024), 4, 8, "solar", "NASA Eclipse Catalog")
    /\ \E k \in DOMAIN calculated :
          calculated[k] = EclipseRecord(Y(2024), 4, 8, "solar",
                                        "Saros Cycle Calculation")
    /\ \E k \in DOMAIN eclipseList : eclipseList[k] = fromNASA[1]
    /\ \A k \in DOMAIN eclipseList :
          YearMonth(eclipseList[k]) = <<Y(2024), 4>> => eclipseList[k].day = 14

\* C9 as stated: merging a list with itself yields the list.
C9_SelfMergeIsIdentity ==
    \A k \in DOMAIN selfMerged : selfMerged[k].result = selfMerged[k].list

\* C9 as amended: merging a list with itself yields the original list
\* exactly when the list has no two records with the same (year, month) and
\* is in non-decreasing year order; every list the combine step produced is
\* such a list, and merging the result with itself again changes nothing.
C9_SelfMergeIdempotent ==
    \A k \in DOMAIN selfMerged :
       LET list == selfMerged[k].list
           result == selfMerged[k].result
       IN /\ (result = list) <=> (UniqueYearMonth(list) /\ YearSorted(list))
          /\ list = eclipseList => result = list
          /\ MergeLists(result, result) = result

\* A merged list of NASA and calculated records merged with itself.
C9_Witness ==
    /\ selfMerged # <<>>
    /\ Len(fromNASA) = 2
    /\ selfMerged[1].list = eclipseList
    /\ selfMerged[1].result = eclipseList
    /\ Len(eclipseList) > Len(calculated)

\* (year, month, day) of a is not later than that of b.
NotLater(a, b) ==
    \/ a.year < b.year
    \/ a.year = b.year /\ a.month < b.month
    \/ a.year = b.year /\ a.month = b.month /\ a.day <= b.day

\* C10: the combined list is in calendar order: no record comes before a
\* record of an earlier (year, month, day).
C10_Chronological ==
    mpc = "combined" =>
       \A a, b \in DOMAIN eclipseList : a < b => NotLater(eclipseList[a], eclipseList[b])

\* ------------------------------------------------- claims: birthday matcher

\* The record falls on the month and day of the stored birth date.
OnBirthday(rec) == rec.month = birthDate[2] /\ rec.day = birthDate[3]

\* The dataset has a record for year y with success true holding a phase
\* named in names on the month and day of the birth date.
HasPhaseOnBirthday(y, names) ==
    /\ y \in DOMAIN moonPhaseData.moonPhases
    /\ moonPhaseData.moonPhases[y].success
    /\ \E k \in DOMAIN moonPhaseData.moonPhases[y].phases :
          /\ moonPhaseData.moonPhases[y].phases[k].phase \in names
          /\ OnBirthday(moonPhaseData.moonPhases[y].phases[k])

BucketIsRight(list, names) ==
    \A y \in DataYears \cup Range(list) :
       (y \in Range(list)) <=> (y >= birthDate[1] /\ HasPhaseOnBirthday(y, names))

\* C11: year y is in the Full Moon list of processJSONAstronomicalData if and
\* only if y >= birth year and the dataset's record of y has success true
\* and a Full Moon on the birth date's (month, day); the same for New Moon,
\* First Quarter and Last Quarter (also named Third Quarter); no year below
\* the birth year is in any list.
C11_MoonYearsMatchBirthday ==
    searchResults # <<>> =>
       /\ BucketIsRight(searchResults[1].fullMoon, {"Full Moon"})
       /\ BucketIsRight(searchResults[1].newMoon, {"New Moon"})
       /\ BucketIsRight(searchResults[1].firstQuarter, {"First Quarter"})
       /\ BucketIsRight(searchResults[1].lastQuarter,
                        {"Last Quarter", "Third Quarter"})

\* The number of positions of list holding x.
Copies(list, x) == Cardinality({k \in DOMAIN list : list[k] = x})

\* The entries the eclipse matcher owes for one list of the dataset.
OwedEclipses(list, eclipseCategory, category) ==
    LET Owed(e) == e.year >= birthDate[1] /\ OnBirthday(e)
        hits == SelectSeq(list, Owed)
    IN [k \in DOMAIN hits |->
          [year |-> hits[k].year,
           type |-> extractEclipseType(hits[k].description, eclipseCategory),
           category |-> category,
           date |-> <<hits[k].year, hits[k].month, hits[k].day>>,
           rawDescription |-> hits[k].description]]

\* C12: processEclipseData returns exactly the records of the solar and lunar
\* lists with year >= birth year on the birth date's (month, day), each
\* tagged with its subtype, a solar record with the 'T' marker as 'Total
\* Solar Eclipse'; no record of a year below the birth year is returned.
C12_EclipsesMatchBirthday ==
    searchResults # <<>> =>
       LET returned == searchResults[1].eclipses
           owed == OwedEclipses(eclipseData.solarEclipses, "solar", "Solar")
                   \o OwedEclipses(eclipseData.lunarEclipses, "lunar", "Lunar")
       IN /\ \A x \in Range(returned) \cup Range(owed) :
                Copies(returned, x) = Copies(owed, x)
          /\ \A k \in DOMAIN returned :
                /\ returned[k].year >= birthDate[1]
                /\ (returned[k].category = "Solar"
                    /\ includes(returned[k].rawDescription, "   T   "))
                   => returned[k].type = "Total Solar Eclipse"

NoRepeat(list) == \A j, k \in DOMAIN list : list[j] = list[k] => j = k

OnePerYearType(eclipses) ==
    \A j, k \in DOMAIN eclipses :
       (eclipses[j].year = eclipses[k].year /\ eclipses[j].type = eclipses[k].type)
          => j = k

MatchingRecords(y, names) ==
    LET birth == NewDateFromISO(birthDate, utcOffset)
        yearData == moonPhaseData.moonPhases[y]
    IN IF ~yearData.success \/ y < getFullYear(birth) THEN 0
       ELSE Cardinality({k \in DOMAIN yearData.phases :
                           /\ yearData.phases[k].phase \in names
                           /\ yearData.phases[k].month = getMonth(birth) + 1
                           /\ yearData.phases[k].day = getDate(birth)})

OncePerRecord(list, names) ==
    /\ \A y \in DataYears : Copies(list, y) = MatchingRecords(y, names)
    /\ NoRepeat(list) <=> \A y \in DataYears : MatchingRecords(y, names) <= 1

RoundTrips(phaseObj) ==
    LET phaseDate == parseJSONPhaseDate(phaseObj)
    IN /\ phaseDate # null
       /\ getMonth(phaseDate) + 1 = phaseObj.month
       /\ getDate(phaseDate) = phaseObj.day

\* C15: every phase record of a year with success true, year in 1960..2100,
\* parsed by parseJSONPhaseDate and read back, gives its own (month, day);
\* so does a record of the first and of the last day of any month of the
\* dataset's years.
C15_PhaseDateRoundTrip ==
    /\ \A y \in DOMAIN moonPhaseData.moonPhases :
          (moonPhaseData.moonPhases[y].success /\ y \in FirstYear..LastYear) =>
             \A k \in DOMAIN moonPhaseData.moonPhases[y].phases :
                RoundTrips(moonPhaseData.moonPhases[y].phases[k])
    /\ \A y \in DOMAIN moonPhaseData.moonPhases : \A m \in 1..12 :
          \A d \in {1, DaysInMonth(y, m)} :
             RoundTrips([year |-> y, month |-> m, day |-> d])

\* A search over a dataset with a phase on December 31 that matched it: the
\* parsed date was read back as month 12, day 31.
C15_Witness ==
    /\ searchResults # <<>>
    /\ utcOffset = -5
    /\ birthDate = <<2000, 1, 1>>
    /\ moonPhaseData.moonPhases[1999].success
    /\ \E k \in DOMAIN moonPhaseData.moonPhases[1999].phases :
          /\ moonPhaseData.moonPhases[1999].phases[k].month = 12
          /\ moonPhaseData.moonPhases[1999].phases[k].day = 31
          /\ moonPhaseData.moonPhases[1999].phases[k].phase = "New Moon"
    /\ searchResults[1].newMoon = <<1999>>

\* -------------------------------------------------------- claims: classifier

MarkersOf(category) == IF category = "solar" THEN SolarMarkers ELSE LunarMarkers

HasMarker(desc, category) == \E m \in MarkersOf(category) : includes(desc, m)

\* C14: for every description and each of the categories solar and lunar
\* every copy of extractEclipseType returns a non-empty label, and the
\* generic label of the category when the description has none of the
\* category's markers.
C14_ClassifierTotal ==
    labels # <<>> =>
       /\ labels[1].app # "" /\ labels[1].test # "" /\ labels[1].summary # ""
       /\ ~HasMarker(classifiedDescription, classifiedCategory) =>
             /\ labels[1].app = Capitalized(classifiedCategory)
             /\ labels[1].test = Capitalized(classifiedCategory)
             /\ labels[1].summary = "Unspecified"
       /\ HasMarker(classifiedDescription, classifiedCategory) =>
             /\ labels[1].app \notin {"Solar Eclipse", "Lunar Eclipse"}
             /\ labels[1].test = labels[1].app
             /\ labels[1].summary # "Unspecified"

\* A lunar classifiedDescription whose only marker is the solar 'T' marker got the
\* generic lunar label.
C14_Witness ==
    /\ labels # <<>>
    /\ classifiedCategory = "lunar"
    /\ classifiedDescription = <<"0129", "   T   ">>
    /\ labels[1].app = "Lunar Eclipse"
    /\ labels[1].summary = "Unspecified"

\* -------------------------------------- claims: makeRequest and its caller

\* No handler of the request can run any more.
NoEventLeft ==
    \/ conn \in {"ended", "closed"}
    \/ conn = "aborted" /\ runtime = "no end on abort"

\* C16: makeRequest settles exactly once: it resolves with the full body if
\* and only if the response ends with status 200, fails with the status
\* error when it ends with another status, with the connection error on a
\* network failure and with the timeout error when the timeout fires first;
\* once no event is left the promise is settled, and the first resolve or
\* reject call is the one that decides.
C16_SettlesExactlyOnce ==
    /\ promise.state = "fulfilled" => (statusCode = 200 /\ promise.value = body)
    /\ conn = "ended" =>
          promise = IF statusCode = 200
                    THEN [state |-> "fulfilled", value |-> body]
                    ELSE [state |-> "rejected", value |-> <<"HTTP", statusCode>>]
    /\ NoEventLeft => promise.state # "pending"
    /\ promise.state = "pending" <=> settleCalls = <<>>
    /\ settleCalls # <<>> =>
          promise = [state |-> settleCalls[1][1], value |-> settleCalls[1][2]]

\* C17: whatever the request settles with, fetchMoonPhasesYear returns a
\* record for the requested year: success true with the phases and their
\* count only for a 200 response whose JSON has phasedata, and otherwise
\* success false with an error message and an empty phases list.
C17_NeverPropagates ==
    yearRecord # <<>> =>
       LET record == yearRecord[1]
           good == /\ promise.state = "fulfilled"
                   /\ statusCode = 200
                   /\ promise.value = body
                   /\ body # <<>>
                   /\ body[1][1] = "phasedata"
       IN /\ record.year = FirstYear
          /\ record.success <=> good
          /\ record.success =>
                /\ record.phases = Phasedata
                /\ record.count = Len(record.phases)
                /\ record.error = NoError
          /\ ~record.success =>
                /\ record.phases = <<>>
                /\ record.error # NoError
                /\ promise.state = "rejected" => record.error = promise.value

\* A request that timed out while the body was arriving: the year's record
\* carries the timeout as its error.
C17_Witness ==
    /\ yearRecord # <<>>
    /\ conn = "aborted"
    /\ chunks # <<>>
    /\ yearRecord[1].success = FALSE
    /\ yearRecord[1].error = <<"Request timeout">>
    /\ yearRecord[1].phases = <<>>

\* ------------------------------------------------ claims: fetchAllCosmicData

\* C18: a failure of the eclipse stage or of the final write, after the moon
\* stage gave its data, is fatal: fetchAllCosmicData rejects with that
\* error, the master file is not reported complete and the structure built
\* so far is in the partial file; when the moon stage fails the eclipse
\* stage is never started and no partial file is written.
C18_FailureIsFatal ==
    cpc = "rejected" =>
       IF masterData.moonPhases = <<>>
       THEN /\ thrown = "moon stage failed"
            /\ stagesStarted = <<"fetchAllMoonData">>
            /\ partialFile \notin DOMAIN cosmicFiles
       ELSE /\ thrown \in {"eclipse stage failed", "master write failed",
                           "stat failed"}
            /\ ~reportedComplete
            /\ partialFile \in DOMAIN cosmicFiles
            /\ cosmicFiles[partialFile] = masterData

\* ----------------------------------------------- claims: the eclipse lists

InRange(list) ==
    \A k \in DOMAIN list :
       /\ list[k].year >= Y(FirstYear)
       /\ list[k].year <= Y(LastYear)
       /\ list[k].month \in 1..12

\* C19: every record of the list parseNASAEclipseData returned, of the list
\* calculateEclipses returned and of their merge has its year within
\* 1960..2100 and its month within 1..12.
C19_YearAndMonthInRange ==
    /\ InRange(fromNASA)
    /\ InRange(calculated)
    /\ InRange(eclipseList)

\* The piece that decides a line: the leftmost one of the first pattern
\* that matches.
Deciding(line) ==
    IF \E k \in DOMAIN line : line[k].fmt = "name"
    THEN line[Least({k \in DOMAIN line : line[k].fmt = "name"})]
    ELSE IF \E k \in DOMAIN line : line[k].fmt = "iso"
    THEN line[Least({k \in DOMAIN line : line[k].fmt = "iso"})]
    ELSE line[Least({k \in DOMAIN line : line[k].fmt = "us"})]

\* The line matches no pattern, or matches with a month name that is
\* unknown, or with a year outside 1960..2100.
Dropped(line) ==
    \/ line = <<>>
    \/ Deciding(line).fmt = "name" /\ Deciding(line).month \notin DOMAIN nasaMonthMap
    \/ Deciding(line).year \notin FirstYear..LastYear

\* C20: parseNASAEclipseData returns for every text; a line that matches no
\* pattern, or matches with an unknown month name or a year outside
\* 1960..2100, gives no record, and every line gives at most one record:
\* the records are, in the order of the lines, those of the lines' deciding
\* matches.
C20_UnparsableLinesDropped ==
    mpc \in {"fetched", "combined"} =>
       LET kept == SelectSeq(catalogText, LAMBDA line : ~Dropped(line))
       IN /\ Len(fromNASA) <= Len(kept)
          /\ Len(fromNASA) <= Len(catalogText)
          /\ \A k \in DOMAIN fromNASA :
                \E j \in DOMAIN kept :
                   /\ k <= j
                   /\ fromNASA[k].year = Y(Deciding(kept[j]).year)
                   /\ fromNASA[k].day = Deciding(kept[j]).day
          /\ (\A j \in DOMAIN catalogText : Dropped(catalogText[j]))
                => fromNASA = <<>>

\* A text whose first line matches the month-name pattern with an unknown
\* month (and holds an ISO date as well) and whose second line is a plain
\* catalog line: one record, that of the second line.
C20_Witness ==
    /\ mpc = "fetched"
    /\ catalogText = << <<Piece("name", 2024, "Xyz", 8), Piece("iso", 2024, "04", 8)>>,
                        <<Piece("name", 2024, "Apr", 8)>> >>
    /\ Len(fromNASA) = 1
    /\ fromNASA[1].month = 4

TypedDate(text) ==
    <<parseIntDigits(SubSeq(text, 7, 10)), parseIntDigits(SubSeq(text, 4, 5)),
      parseIntDigits(SubSeq(text, 1, 2))>>

\* C27: the year, month and day the matcher derives from the stored birth
\* date string are the year, month and day the user typed, in every timezone.
C27_DerivedDateIsTypedDate ==
    \A k \in DOMAIN queryLog : queryLog[k].birth = TypedDate(queryLog[k].typed)

ValidDate(date) ==
    /\ date # <<>>
    /\ date[3] \in 1..31
    /\ date[2] \in 1..12
    /\ date[1] \in 1900..2100

\* C28: a search runs only with a stored birth date that is a valid date typed
\* as 8 digits; while it runs, results are null and loading is true; once a
\* search has finished and none runs, exactly one of results and error is set.
C28_SearchLifecycle ==
    /\ birthDate # <<>> =>
          ValidDate(birthDate) /\ Len(digitsOnly(displayDate)) = 8
    /\ loading => birthDate # <<>> /\ searchResults = null
    /\ (queryLog # <<>> /\ ~loading) =>
          (searchResults # null) # (uiError # "")
    /\ \A k \in DOMAIN queryLog : ValidDate(queryLog[k].birthDate)

\* Two searches have finished, the last with results, and the user has
\* edited the date since.
C28_Witness ==
    /\ Len(queryLog) >= 2
    /\ ~loading
    /\ searchResults # null
    /\ displayDate # queryLog[Len(queryLog)].typed

OriginOrReferer == {"origin", "Origin", "ORIGIN", "referer", "Referer", "REFERER"}

\* C22: an OPTIONS request is answered at once with status 200 and the CORS
\* headers and no upstream request is made for it; no upstream request carries
\* an origin or a referer header.
C22_PreflightAndStrippedHeaders ==
    \A c \in Connections :
       /\ (relayRequests[c].method = "OPTIONS") =>
             /\ relayState[c] = "ended"
             /\ heads[c] = <<[statusCode |-> 200, headers |-> corsHeaders]>>
             /\ upstreamRequests[c] = <<>>
       /\ \A k \in DOMAIN upstreamRequests[c] :
             upstreamRequests[c][k].headers \cap OriginOrReferer = {}

\* A preflight was answered and a request that came with Origin and Referer
\* was forwarded.
C22_Witness ==
    \E c, d \in Connections :
       /\ relayRequests[c].method = "OPTIONS"
       /\ relayRequests[d].headers = {"Origin", "Referer", "Accept"}
       /\ Len(upstreamRequests[d]) = 1

\* The target of a request is rejected by the relay itself.
BadTarget(c) ==
    LET targetUrl == Tail(relayRequests[c].url)
    IN \/ targetUrl = <<>>
       \/ SubSeq(targetUrl, 1, 4) # <<"h", "t", "t", "p">>
       \/ URLThrows(targetUrl)

\* C29: every request the relay received gets exactly one response head, in
\* every ordering of the upstream events: a bad target a single 400, an
\* upstream error a single 500, and never a second head.
C29_OneHeadPerRequest ==
    \A c \in Connections :
       /\ Len(heads[c]) <= 1
       /\ relayState[c] \in {"piping", "ended", "dropped"} => Len(heads[c]) = 1
       /\ (relayState[c] # "free" /\ relayRequests[c].method # "OPTIONS"
             /\ BadTarget(c)) =>
             heads[c] = <<[statusCode |-> 400,
                           headers |-> corsHeaders \cup {"Content-Type"}]>>

\* The positions of the "fetch" events of the live search.
FetchEvents == {k \in DOMAIN liveEvents : liveEvents[k].kind = "fetch"}

\* When the search is over, every year from the birth year to the end year
\* had its requests sent.
FailedYearDoesNotStop ==
    livePc = "done" =>
       {liveEvents[k].year : k \in FetchEvents} = liveBirthYear..liveEndYear

\* C23: in the live search a 500 ms delay lies between the requests of every
\* two consecutive years, and a year that fails does not stop the search.
C23_DelayBetweenYearsAndNoAbort ==
    /\ \A j, k \in FetchEvents :
          j < k =>
             \E m \in (j + 1)..(k - 1) : liveEvents[m].kind = "delay"
    /\ FailedYearDoesNotStop

\* C26: when fetchAllMoonData returns, metadata.processed is the number of
\* years and metadata.successful + metadata.failed is metadata.processed.
C26_CountsAddUp ==
    moonPc = "returned" =>
       /\ moonAllData.metadata.processed = Len(moonYears)
       /\ moonAllData.metadata.successful + moonAllData.metadata.failed
             = moonAllData.metadata.processed

\* The first half of C26 alone.
ProcessedIsNumberOfYears ==
    moonPc = "returned" => moonAllData.metadata.processed = Len(moonYears)

\* The files on disk that an earlier run wrote.
LeftOver == {f \in moonFiles : f.run < moonRun}

\* C24: every run of the moon script starts at the configured start year,
\* whatever progress files the runs before it left on disk, and an interrupt
\* leaves the files on disk as they are.
C24_RerunStartsAtStartYear ==
    /\ [](\A r \in 1..moonRun : moonFetched[r][1] = FirstYear)
    /\ [][moonPc' = "interrupted" => moonFiles' = moonFiles]_vars

\* A second run is under way with a progress file of the first run, which
\* was interrupted, still on disk.
C24_Witness ==
    /\ moonRun = 2
    /\ moonPc = "fetching"
    /\ \E f \in LeftOver : f.name = MoonProgressFile(progressInterval)
    /\ \A f \in moonFiles : f.name # MoonFinalFile

\* The years of a list lie in [first, last], whole or not.
YearsWithin(list, first, last) ==
    \A k \in DOMAIN list : list[k].year >= Y(first) /\ list[k].year <= Y(last)

\* No two records of a list share (year, month, day).
UniqueYearMonthDay(list) ==
    \A j, k \in DOMAIN list :
       SameYearMonthDay(list[j], list[k]) => j = k

\* C25: calculateEclipses returns only records whose year is an integer in
\* [startYear, endYear], no two of them with the same (year, month, day), in
\* non-decreasing order of the year.
C25_CalculatedYearsAreWholeAndInRange ==
    mpc = "combined" =>
       /\ \A k \in DOMAIN calculated : calculated[k].year % 100 = 0
       /\ YearsWithin(calculated, FirstYear, LastYear)
       /\ UniqueYearMonthDay(calculated)
       /\ YearSorted(calculated)

\* C25 without the demand that the years be whole numbers.
CalculatedInRangeUniqueSorted ==
    mpc = "combined" =>
       /\ YearsWithin(calculated, FirstYear, LastYear)
       /\ UniqueYearMonthDay(calculated)
       /\ YearSorted(calculated)

\* The final list of the category is the calculated list as it is when
\* fetchNASAEclipses returned no record, and else a list without two records
\* of the same (year, month) that holds the first record of every
\* (year, month) of the NASA list followed by the calculated list.
FinalListIsRight ==
    mpc = "combined" =>
       IF fromNASA = <<>>
       THEN eclipseList = calculated
       ELSE LET merged == fromNASA \o calculated
            IN /\ UniqueYearMonth(eclipseList)
               /\ \A k \in DOMAIN merged :
                     \E j \in DOMAIN eclipseList :
                        /\ SameYearMonth(eclipseList[j], merged[k])
                        /\ eclipseList[j] =
                              merged[findIndexYearMonth(merged, merged[k])]
               /\ Range(eclipseList) \subseteq Range(merged)

\* C30: fetchNASAEclipses never rejects; a failure of one catalog URL does not
\* keep the next URL from being requested; the final list is the calculated
\* list when no NASA record came back and the deduplicated merge otherwise.
C30_NasaFailuresAreContained ==
    /\ [](nasaPc # "rejected")
    /\ (Len(nasaRequested) = 1) ~> (Len(nasaRequested) = 2)
    /\ []FinalListIsRight

\* C30 without the demand that the second URL is requested.
NasaNeverRejectsAndFinalListIsRight ==
    /\ nasaPc # "rejected"
    /\ FinalListIsRight
    /\ nasaPc = "returned" => Len(nasaRequested) = Len(nasaUrls(eclipseType))

====
